---- MODULE Spec2Model ----
(***************************************************************************)
(* The collection synchronisation engine of jellyfin-collection (jfc):     *)
(* Runner.run, CollectionBuilder.sync_collection, the JellyfinClient       *)
(* membership calls and the MediaMatcher cache, as a state machine.        *)
(*                                                                         *)
(* The Jellyfin server is the environment: a list of BoxSets (collections) *)
(* with their members in insertion order, and per library the items it     *)
(* holds.  Every awaited server call is one step; the server answers it    *)
(* with success (and applies it) or with a failure.                        *)
(***************************************************************************)
EXTENDS Integers, Sequences, FiniteSets, TLC

\* ---------------------------------------------------------------- bounds
\* Server item ids are 1..NumItems; 0 stands for Python's None.
NumItems == 2
\* Longest list of CollectionItems build_collection hands to a sync.
MaxDesired == 2
\* Most BoxSets on the server before the first run.
MaxInitColls == 2
\* JellyfinClient.COLLECTION_ITEMS_BATCH_SIZE is 50 in the source; the model
\* scales it down so that a list of MaxDesired ids spans several batches.
COLLECTION_ITEMS_BATCH_SIZE == 1

\* The most items one provider call returns.
MaxPerSource == 2
\* Longest list of CollectionItems sorted by its metadata.
MaxSortItems == 3
\* Largest config.limit of a filtered collection; 0 stands for no limit.
MaxLimit == 1
\* Longest id list handed to add_to_collection / remove_from_collection.
MaxIds == 3
\* Most pages a TMDb endpoint reports (total_pages), and most results on a
\* page: TMDb serves 20 per page, the model scales that down.
MaxPages == 3
PageSize == 2
\* Most items a library of the server holds.
MaxLibrary == 4
\* get_library_items asks for page_size items a request: 500 in the source,
\* scaled down so that a library of MaxLibrary items spans several pages.
page_size == 2

MaxExcluded == 4

\* ------------------------------------------------------------ enumerations
\* jfc.models.collection.SyncMode
SyncMode == {"append", "sync"}

\* jfc.models.collection.CollectionOrder
CollectionOrder ==
    {"custom", "SortName", "PremiereDate", "DateCreated",
     "CommunityRating", "CriticRating", "Random"}

\* The libraries and collection names of the Kometa configuration, in the
\* order KometaParser.get_all_collections returns them (library by library).
AllCollections ==
    << [library |-> "L1", name |-> "N1"],
       [library |-> "L1", name |-> "N2"],
       [library |-> "L2", name |-> "N2"] >>

Names == {AllCollections[k].name : k \in 1..Len(AllCollections)}

Libraries == {AllCollections[k].library : k \in 1..Len(AllCollections)}

\* ------------------------------------------------------------- sequences
Range(s) == {s[k] : k \in 1..Len(s)}

Min(a, b) == IF a < b THEN a ELSE b

\* All orders in which the elements of a finite set can be listed: Python's
\* list(a_set) yields one of them, which one is not specified.
ListsOfSet(S) ==
    {s \in [1..Cardinality(S) -> S] : \A a, b \in 1..Cardinality(S) : s[a] = s[b] => a = b}

\* The sequences without repetition of at most n elements of S.
InjectiveSeqs(S, n) ==
    UNION {ListsOfSet(T) : T \in {U \in SUBSET S : Cardinality(U) <= n}}

\* ------------------------------------------------------ collection items
\* The CollectionItems build_collection can produce, named 1..NumItems + 1.
\* Candidate k <= NumItems was matched to the library item with Jellyfin id k;
\* the last candidate is not in the library (jellyfin_id None, written 0).
Candidates == 1..(NumItems + 1)

\* CollectionItem as build_collection constructs it: the sort metadata
\* (premiere_date, date_created, community_rating, critic_rating, sort_name)
\* is never passed and keeps its default None, written 0.
CollectionItem(k) ==
    [ title            |-> k,
      year             |-> 2020 + ((2 * k) % 3),
      jellyfin_id      |-> IF k <= NumItems THEN k ELSE 0,
      premiere_date    |-> 0,
      date_created     |-> 0,
      community_rating |-> 0,
      critic_rating    |-> 0,
      sort_name        |-> 0 ]

\* The TMDb ids of the items the server libraries can hold: the library item
\* with Jellyfin id k has TMDb id k.
TmdbIds == 1..NumItems

\* The lists of CollectionItems a build can hand to a sync (deduplicated, so
\* without repetition).
DesiredLists == InjectiveSeqs(Candidates, MaxDesired)

\* ------------------------------------------------------------------ state
VARIABLES
    boxsets,          \* server: the BoxSets, <<[Name, Items]>>; the Id is the index
    dry_run,          \* Runner.dry_run / CollectionBuilder.dry_run
    pc,               \* where Runner.run stands
    run_args,         \* the arguments of the current Runner.run call
    queue,            \* the (library, collection) pairs the loops have not reached
    run_report,       \* the CollectionReports of the current run, in order
    config,           \* the CollectionConfig in work
    items,            \* collection.items: the candidates, in source order
    existing,         \* sync_collection: Id of the BoxSet found, 0 for None
    jellyfin_id,      \* collection.jellyfin_id, 0 for None
    current_ids,      \* sync_collection: set of member ids read from the server
    target_ids_list,  \* sync_collection: desired ids in sorted order
    to_add_list,      \* sync_collection
    to_remove_list,   \* sync_collection
    needs_reorder,    \* sync_collection
    stages,           \* the add_to_collection / remove_from_collection calls still to make
    batch_start,      \* the loop variable i of the client call in progress
    outcome,          \* how build_collection + sync_collection ended
    calls,            \* history: the mutating server calls of the current sync
    metadata_result,  \* history: what update_collection_metadata returned
    prev,             \* history: the sync before, when it returned in full SYNC mode
    repeated,         \* history: this sync repeats the one before (same name,
                      \* settings and items) with no server call in between
    created,          \* history: create_collection calls answered, per name
    library_items,    \* server: per library, the TMDb ids of the items it holds
    _startup_done,    \* Runner._startup_done
    _cache,           \* MediaMatcher._cache: TMDb id -> LibraryItem or None
    _library_loaded,  \* MediaMatcher._library_loaded: the library ids it holds
    _library_items,   \* MediaMatcher._library_items: library id -> TMDb ids indexed
    lookups,          \* history: the find_in_library calls of the current run
    last_call,        \* history: the latest call to the MediaMatcher
    fn_args,          \* the arguments a function of the builder or runner is called with
    fn_result         \* what that call returned, NotCalled before it

serverVars == <<boxsets>>
runVars == <<dry_run, run_args, queue, run_report>>
collVars == <<config, items>>
syncVars == <<existing, jellyfin_id, current_ids, target_ids_list, to_add_list,
              to_remove_list, needs_reorder, stages, batch_start>>
histVars == <<calls, metadata_result, prev, repeated, created>>
matcherVars == <<library_items, _startup_done, _cache, _library_loaded, _library_items,
                lookups, last_call>>
pureVars == <<fn_args, fn_result>>
engineVars == <<outcome, serverVars, runVars, collVars, syncVars, histVars>>
vars == <<pc, engineVars, matcherVars, pureVars>>

NoConfig == [name |-> "", library |-> "", collection_order |-> "custom", sync_mode |-> "sync"]
NoArgs == [libraries |-> {}, collections |-> {}, scheduled |-> FALSE, posters_only |-> FALSE]
NoOutcome == [kind |-> "none", added |-> 0, removed |-> 0, error |-> ""]
NotCalled == [called |-> FALSE]
NoPrev == [name |-> "", items |-> <<>>, collection_order |-> "custom", sync_mode |-> "sync"]

\* ------------------------------------------------------- Jellyfin server
\* What the server does with the ids of POST /Collections/{id}/Items that it
\* answers with 204: each id that is not yet a member is appended, in order.
RECURSIVE ServerAdd(_, _)
ServerAdd(members, batch) ==
    IF batch = <<>> THEN members
    ELSE ServerAdd(IF Head(batch) \in Range(members) THEN members
                   ELSE Append(members, Head(batch)),
                   Tail(batch))

\* What the server does with the ids of DELETE /Collections/{id}/Items that
\* it answers with 204.
ServerRemove(members, batch) ==
    LET Stays(id) == id \notin Range(batch) IN SelectSeq(members, Stays)

\* JellyfinClient.get_collections: Id, Name and ChildCount of every BoxSet.
get_collections ==
    [k \in 1..Len(boxsets) |->
        [Id |-> k, Name |-> boxsets[k].Name, ChildCount |-> Len(boxsets[k].Items)]]

\* JellyfinClient.get_collection_items: the ids of the members, in order.
get_collection_items(collection_id) == boxsets[collection_id].Items

\* The BoxSet lists a server can hold before the first run: members listed
\* in ascending id order.
InitMembers == {s \in InjectiveSeqs(1..NumItems, NumItems) :
                    \A a, b \in 1..Len(s) : a < b => s[a] < s[b]}

InitBoxSets ==
    UNION {[1..n -> [Name : Names, Items : InitMembers]] : n \in 0..MaxInitColls}

\* ------------------------------------------------------- sync_collection
\* ExistingMatch without the comparison of names: the largest BoxSet of the
\* server is taken, whatever it is called.
ExistingMatch_AnyName(collections, name) ==
    IF collections = <<>> THEN 0
    ELSE CHOOSE k \in 1..Len(collections) :
            \A j \in 1..Len(collections) :
                \/ collections[k].ChildCount > collections[j].ChildCount
                \/ collections[k].ChildCount = collections[j].ChildCount /\ k <= j

\* existing_matches and max(existing_matches, key=ChildCount): the Id of the
\* first BoxSet of that name with the largest ChildCount, 0 when there is none.
ExistingMatch(collections, name) ==
    LET existing_matches == {k \in 1..Len(collections) : collections[k].Name = name}
    IN  IF existing_matches = {} THEN 0
        ELSE CHOOSE k \in existing_matches :
                \A j \in existing_matches :
                    \/ collections[k].ChildCount > collections[j].ChildCount
                    \/ collections[k].ChildCount = collections[j].ChildCount /\ k <= j

\* datetime.date as a number; date.min is DateOf(1).
DateOf(year) == year * 10000 + 101

\* str.lower() on the names of the model: a name is written as its rank in
\* Python's string order, the lower-case names 1, 2, ... and the upper-case
\* name of rank n as n - 10, in front of all of them.
LowerName(name) == IF name < 0 THEN name + 10 ELSE name

\* The sort_key_* functions of _sort_items_for_collection, as pairs (the
\* name key has one component).
SortKeyOf(order, x) ==
    CASE order = "SortName" ->
           <<LowerName(IF x.sort_name # 0 THEN x.sort_name ELSE x.title), 0>>
      [] order = "PremiereDate" ->
           <<IF x.premiere_date # 0 THEN x.premiere_date
             ELSE IF x.year # 0 THEN DateOf(x.year) ELSE DateOf(1), x.title>>
      [] order = "CommunityRating" -> <<0 - x.community_rating, x.title>>
      [] order = "CriticRating" -> <<0 - x.critic_rating, x.title>>
      [] order = "DateCreated" ->
           <<IF x.date_created # 0 THEN x.date_created ELSE DateOf(1), x.title>>
      [] OTHER -> <<0, 0>>

SortKey(order, k) == SortKeyOf(order, CollectionItem(k))

\* Python's order on tuples.
KeyLess(a, b) == a[1] < b[1] \/ (a[1] = b[1] /\ a[2] < b[2])

\* x put into the sorted list s in front of the first element that has to
\* follow it; elements with an equal key stay ahead of it (sorted is stable,
\* with reverse=True too).
RECURSIVE InsertSorted(_, _, _, _)
InsertSorted(x, s, order, reverse) ==
    IF s = <<>> THEN <<x>>
    ELSE IF (IF reverse THEN KeyLess(SortKey(order, Head(s)), SortKey(order, x))
             ELSE KeyLess(SortKey(order, x), SortKey(order, Head(s))))
         THEN <<x>> \o s
         ELSE <<Head(s)>> \o InsertSorted(x, Tail(s), order, reverse)

\* sorted(items, key=key_func, reverse=reverse)
RECURSIVE Sorted(_, _, _)
Sorted(s, order, reverse) ==
    IF s = <<>> THEN <<>>
    ELSE InsertSorted(s[Len(s)], Sorted(SubSeq(s, 1, Len(s) - 1), order, reverse),
                      order, reverse)

\* _sort_items_for_collection: the lists it can return (random.shuffle can
\* return every permutation).
sort_items_for_collection(its, order) ==
    IF order = "custom" THEN {its}
    ELSE IF order = "Random"
         THEN {[k \in 1..Len(its) |-> its[p[k]]] : p \in ListsOfSet(1..Len(its))}
         ELSE {Sorted(its, order, order \in {"PremiereDate", "DateCreated"})}

\* sorted(items, key=key_func, reverse=reverse) on the items themselves.
RECURSIVE InsertItem(_, _, _, _)
InsertItem(x, s, order, reverse) ==
    IF s = <<>> THEN <<x>>
    ELSE IF (IF reverse THEN KeyLess(SortKeyOf(order, Head(s)), SortKeyOf(order, x))
             ELSE KeyLess(SortKeyOf(order, x), SortKeyOf(order, Head(s))))
         THEN <<x>> \o s
         ELSE <<Head(s)>> \o InsertItem(x, Tail(s), order, reverse)

RECURSIVE SortedItems(_, _, _)
SortedItems(s, order, reverse) ==
    IF s = <<>> THEN <<>>
    ELSE InsertItem(s[Len(s)], SortedItems(SubSeq(s, 1, Len(s) - 1), order, reverse),
                    order, reverse)

\* _sort_items_for_collection, "reverse = order in {PREMIERE_DATE,
\* DATE_CREATED}".
Reversed(order) == order \in {"PremiereDate", "DateCreated"}

\* _sort_items_for_collection on CollectionItems with any metadata: the
\* lists it can return.
_sort_items_for_collection(its, order) ==
    IF order = "custom" THEN {its}
    ELSE IF order = "Random"
         THEN {[k \in 1..Len(its) |-> its[p[k]]] : p \in ListsOfSet(1..Len(its))}
         ELSE {SortedItems(its, order, Reversed(order))}

\* target_ids_list: the jellyfin_id of the sorted items that have one.
TargetIdsList(sorted_items) ==
    LET Matched(k) == CollectionItem(k).jellyfin_id # 0
        matched == SelectSeq(sorted_items, Matched)
    IN  [k \in 1..Len(matched) |-> CollectionItem(matched[k]).jellyfin_id]

\* ToAddList built from a set difference: the ids come in ascending order,
\* not in the order of the target list.
ToAddList_SetOrder(target, current) ==
    LET missing == Range(target) \ current
    IN  CHOOSE s \in ListsOfSet(missing) : \A a, b \in 1..Len(s) : a < b => s[a] < s[b]

\* to_add_list = [item_id for item_id in target_ids_list if item_id not in current_ids]
ToAddList(target, current) ==
    LET Missing(id) == id \notin current IN SelectSeq(target, Missing)

\* ToRemove that treats every mode as APPEND.
ToRemove_Never(sync_mode, current, target) == {}

\* to_remove = current_ids - target_ids in SYNC mode, set() otherwise
ToRemove(sync_mode, current, target) ==
    IF sync_mode = "sync" THEN current \ Range(target) ELSE {}

\* NeedsReorder without its last conjunct: an ordered collection is rebuilt
\* although nothing changed.
NeedsReorder_Always(order, sync_mode, exists, to_add, to_remove) ==
    \/ order # "custom"
    \/ order = "custom" /\ sync_mode = "sync" /\ exists # 0

\* needs_reorder
NeedsReorder(order, sync_mode, exists, to_add, to_remove) ==
    /\ \/ order # "custom"
       \/ order = "custom" /\ sync_mode = "sync" /\ exists # 0
    /\ (to_add # <<>> \/ to_remove # <<>> \/ exists = 0)

\* MembershipCalls without the reorder branch: whatever needs_reorder says,
\* only the missing ids are added and the surplus ids removed.
MembershipCalls_NoReorder(reorder, current_list, target, to_add, to_remove) ==
    (IF to_add # <<>>
     THEN <<[phase |-> "add", op |-> "add", ids |-> to_add]>>
     ELSE <<>>)
    \o (IF to_remove # <<>>
        THEN <<[phase |-> "remove", op |-> "remove", ids |-> to_remove]>>
        ELSE <<>>)

\* MembershipCalls with the two calls of the reorder branch swapped: the
\* desired list is added before the current members are cleared.
MembershipCalls_AddFirst(reorder, current_list, target, to_add, to_remove) ==
    IF reorder /\ target # <<>>
    THEN <<[phase |-> "readd", op |-> "add", ids |-> target]>>
         \o (IF current_list # <<>>
             THEN <<[phase |-> "clear", op |-> "remove", ids |-> current_list]>>
             ELSE <<>>)
    ELSE (IF to_add # <<>>
          THEN <<[phase |-> "add", op |-> "add", ids |-> to_add]>>
          ELSE <<>>)
         \o (IF to_remove # <<>>
             THEN <<[phase |-> "remove", op |-> "remove", ids |-> to_remove]>>
             ELSE <<>>)

\* The client calls sync_collection makes for the membership, in order: the
\* clear and re-add of a reorder, or the simple add and remove.
MembershipCalls(reorder, current_list, target, to_add, to_remove) ==
    IF reorder /\ target # <<>>
    THEN (IF current_list # <<>>
          THEN <<[phase |-> "clear", op |-> "remove", ids |-> current_list]>>
          ELSE <<>>)
         \o <<[phase |-> "readd", op |-> "add", ids |-> target]>>
    ELSE (IF to_add # <<>>
          THEN <<[phase |-> "add", op |-> "add", ids |-> to_add]>>
          ELSE <<>>)
         \o (IF to_remove # <<>>
             THEN <<[phase |-> "remove", op |-> "remove", ids |-> to_remove]>>
             ELSE <<>>)

\* The RuntimeError sync_collection raises when a membership call fails.
MembershipError(phase) ==
    CASE phase = "clear" -> "Failed to clear collection before reorder"
      [] phase = "readd" -> "Failed to re-add items while reordering"
      [] phase = "add" -> "Failed to add items to collection"
      [] OTHER -> "Failed to remove items from collection"

\* ------------------------------------------------------------- reports
\* jfc.models.report.CollectionReport with the fields the run report is read
\* for; the counts default to 0 until sync_collection sets them.
CollectionReport(name, library, success, error_message) ==
    [ name |-> name, library |-> library, success |-> success,
      error_message |-> error_message,
      items_added_to_collection |-> 0,
      items_removed_from_collection |-> 0 ]

Returned(added, removed) ==
    [kind |-> "returned", added |-> added, removed |-> removed, error |-> ""]

Raised(error) == [kind |-> "raised", added |-> 0, removed |-> 0, error |-> error]

\* One mutating call to the Jellyfin server, as the history records it.
Call(op, collection_id, ids, ok) ==
    [op |-> op, collection |-> collection_id, ids |-> ids, ok |-> ok]

\* ---------------------------------------------------------------- actions
\* Runner.run is called: the configured collections of the selected
\* libraries are queued and a fresh RunReport is started.
RunStart(args) ==
    /\ UNCHANGED <<matcherVars, pureVars>>
    /\ pc = "idle"
    /\ run_args' = args
    /\ LET Selected(c) == args.libraries = {} \/ c.library \in args.libraries
       IN  queue' = SelectSeq(AllCollections, Selected)
    /\ run_report' = <<>>
    /\ pc' = "loop"
    /\ UNCHANGED <<outcome, serverVars, dry_run, collVars, syncVars, histVars>>

\* "for config in collection_configs": a collection the collections filter
\* does not name is skipped.
SkipCollection ==
    /\ UNCHANGED <<matcherVars, pureVars>>
    /\ pc = "loop"
    /\ queue # <<>>
    /\ run_args.collections # {}
    /\ Head(queue).name \notin run_args.collections
    /\ queue' = Tail(queue)
    /\ UNCHANGED <<pc, outcome, serverVars, dry_run, run_args, run_report, collVars,
                   syncVars, histVars>>

\* The next collection of the loop is one to process.
Selected ==
    /\ pc = "loop"
    /\ queue # <<>>
    /\ run_args.collections = {} \/ Head(queue).name \in run_args.collections

\* build_collection for the next configured collection returns the
\* collection with its items; order and mode are those of its configuration.
BuildReturns(order, mode, its) ==
    /\ Selected
    /\ queue' = Tail(queue)
    /\ config' = [name |-> Head(queue).name, library |-> Head(queue).library,
                  collection_order |-> order, sync_mode |-> mode]
    /\ items' = its
    /\ repeated' = (prev = [name |-> Head(queue).name, items |-> its,
                            collection_order |-> order, sync_mode |-> mode])
    /\ prev' = NoPrev
    /\ pc' = "sync"
    /\ UNCHANGED <<outcome, serverVars, dry_run, run_args, run_report, syncVars,
                   calls, metadata_result, created>>

BuildCollection(order, mode, its) ==
    /\ UNCHANGED <<matcherVars, pureVars>>
    /\ BuildReturns(order, mode, its)

\* build_collection raises (a provider or the library load failed): the
\* exception reaches the except clause of the collection loop.
BuildFails(error) ==
    /\ Selected
    /\ queue' = Tail(queue)
    /\ config' = [NoConfig EXCEPT !.name = Head(queue).name,
                                  !.library = Head(queue).library]
    /\ outcome' = Raised(error)
    /\ prev' = NoPrev
    /\ pc' = "raised"
    /\ UNCHANGED <<serverVars, dry_run, run_args, run_report, items, syncVars,
                   calls, metadata_result, repeated, created>>

BuildRaises ==
    /\ UNCHANGED <<matcherVars, pureVars>>
    /\ BuildFails("build_collection failed")

\* The loops are through: the run report is final and handed to the caller.
RunEnd ==
    /\ UNCHANGED <<matcherVars, pureVars>>
    /\ pc = "loop"
    /\ queue = <<>>
    /\ run_report' = <<>>
    /\ pc' = "idle"
    /\ UNCHANGED <<outcome, serverVars, dry_run, run_args, queue, collVars, syncVars,
                   histVars>>

\* sync_collection under dry_run: nothing is read or written.
SyncDryRun ==
    /\ UNCHANGED <<matcherVars, pureVars>>
    /\ pc = "sync"
    /\ dry_run
    /\ outcome' = Returned(0, 0)
    /\ pc' = "returned"
    /\ UNCHANGED <<serverVars, runVars, collVars, syncVars, histVars>>

\* Where sync_collection goes once collection.jellyfin_id is set.
AfterTarget == IF run_args.posters_only THEN "poster" ELSE "get_items"

\* sync_collection, "Get or create Jellyfin collection": get_collections and
\* the choice of the existing BoxSet.
GetCollections(ok) ==
    /\ UNCHANGED <<matcherVars, pureVars>>
    /\ pc = "sync"
    /\ ~dry_run
    /\ IF ok
       THEN LET found == ExistingMatch(get_collections, config.name)
            IN  /\ existing' = found
                /\ jellyfin_id' = found
                /\ pc' = IF found # 0 THEN AfterTarget ELSE "create"
                /\ UNCHANGED outcome
       ELSE /\ outcome' = Raised("get_collections failed")
            /\ pc' = "raised"
            /\ UNCHANGED <<existing, jellyfin_id>>
    /\ UNCHANGED <<serverVars, runVars, collVars, current_ids, target_ids_list,
                   to_add_list, to_remove_list, needs_reorder, stages, batch_start,
                   histVars>>

\* JellyfinClient.create_collection: on success the server holds a new, empty
\* BoxSet of that name.
CreateCollection(ok) ==
    /\ UNCHANGED <<matcherVars, pureVars>>
    /\ pc = "create"
    /\ IF ok
       THEN /\ boxsets' = Append(boxsets, [Name |-> config.name, Items |-> <<>>])
            /\ jellyfin_id' = Len(boxsets) + 1
            /\ created' = [created EXCEPT ![config.name] = @ + 1]
            /\ calls' = Append(calls, Call("create", Len(boxsets) + 1, <<>>, TRUE))
            /\ pc' = AfterTarget
            /\ UNCHANGED outcome
       ELSE /\ outcome' = Raised("create_collection failed")
            /\ calls' = Append(calls, Call("create", 0, <<>>, FALSE))
            /\ pc' = "raised"
            /\ UNCHANGED <<boxsets, jellyfin_id, created>>
    /\ UNCHANGED <<runVars, collVars, existing, current_ids, target_ids_list,
                   to_add_list, to_remove_list, needs_reorder, stages, batch_start,
                   metadata_result, prev, repeated>>

\* sync_collection from get_collection_items to needs_reorder: the current
\* members are read, the items sorted and the changes computed.
GetItemsAndDiff(ok) ==
    /\ UNCHANGED <<matcherVars, pureVars>>
    /\ pc = "get_items"
    /\ IF ok
       THEN \E sorted_items \in sort_items_for_collection(items, config.collection_order) :
              LET current == Range(get_collection_items(jellyfin_id))
                  target == TargetIdsList(sorted_items)
                  to_add == ToAddList(target, current)
                  to_remove == ToRemove(config.sync_mode, current, target)
              IN  \E remove_list \in ListsOfSet(to_remove),
                     current_list \in ListsOfSet(current) :
                    LET reorder == NeedsReorder(config.collection_order,
                                                config.sync_mode, existing,
                                                to_add, remove_list)
                    IN  /\ current_ids' = current
                        /\ target_ids_list' = target
                        /\ to_add_list' = to_add
                        /\ to_remove_list' = remove_list
                        /\ needs_reorder' = reorder
                        /\ stages' = MembershipCalls(reorder, current_list, target,
                                                     to_add, remove_list)
                        /\ pc' = IF stages' = <<>> THEN "metadata" ELSE "apply"
                        /\ UNCHANGED outcome
       ELSE /\ outcome' = Raised("get_collection_items failed")
            /\ pc' = "raised"
            /\ UNCHANGED <<current_ids, target_ids_list, to_add_list, to_remove_list,
                           needs_reorder, stages>>
    /\ UNCHANGED <<serverVars, runVars, collVars, existing, jellyfin_id, batch_start,
                   histVars>>

\* BatchFailed of a client that does not look at the status.
BatchFailed_Ignored(ok) == FALSE

\* "if response.status_code != 204" in the batch loops, with "if not
\* added_ok / removed_ok: raise RuntimeError" in sync_collection: ok says that
\* the server answered 204.
BatchFailed(ok) == ~ok

\* One round of the batch loop of add_to_collection / remove_from_collection:
\* the next COLLECTION_ITEMS_BATCH_SIZE ids are sent, and the server applies
\* them when it answers 204.  After a 204 the loop goes on (and the call
\* returns True after the last batch); any other status ends the call with
\* False, and sync_collection raises.
SendBatch(ok) ==
    /\ UNCHANGED <<matcherVars, pureVars>>
    /\ pc = "apply"
    /\ LET call == Head(stages)
           batch == SubSeq(call.ids, batch_start + 1,
                           Min(batch_start + COLLECTION_ITEMS_BATCH_SIZE, Len(call.ids)))
           members == boxsets[jellyfin_id].Items
       IN  /\ calls' = Append(calls, Call(call.op, jellyfin_id, batch, ok))
           /\ boxsets' = IF ok
                         THEN [boxsets EXCEPT ![jellyfin_id].Items =
                                  IF call.op = "add" THEN ServerAdd(members, batch)
                                  ELSE ServerRemove(members, batch)]
                         ELSE boxsets
           /\ IF BatchFailed(ok)
              THEN /\ outcome' = Raised(MembershipError(call.phase))
                   /\ pc' = "raised"
                   /\ UNCHANGED <<stages, batch_start>>
              ELSE /\ IF batch_start + COLLECTION_ITEMS_BATCH_SIZE < Len(call.ids)
                      THEN /\ batch_start' = batch_start + COLLECTION_ITEMS_BATCH_SIZE
                           /\ UNCHANGED <<stages, pc>>
                      ELSE /\ batch_start' = 0
                           /\ stages' = Tail(stages)
                           /\ pc' = IF Tail(stages) = <<>> THEN "metadata" ELSE "apply"
                   /\ UNCHANGED outcome
    /\ UNCHANGED <<runVars, collVars, existing, jellyfin_id, current_ids,
                   target_ids_list, to_add_list, to_remove_list, needs_reorder,
                   metadata_result, prev, repeated, created>>

\* UpdateMetadata of a sync_collection that raises when the update returns
\* False.
UpdateMetadata_Fatal(answer) ==
    /\ UNCHANGED <<matcherVars, pureVars>>
    /\ pc = "metadata"
    /\ calls' = IF answer = "not found" THEN calls
                ELSE Append(calls, Call("metadata", jellyfin_id, <<>>, answer = "updated"))
    /\ metadata_result' = IF answer = "updated" THEN "True" ELSE "False"
    /\ IF answer = "updated"
       THEN pc' = "poster" /\ UNCHANGED outcome
       ELSE pc' = "raised" /\ outcome' = Raised("Failed to update collection metadata")
    /\ UNCHANGED <<serverVars, runVars, collVars, syncVars, prev, repeated, created>>

\* update_collection_metadata: get_collection, then POST /Items/{id}.  It
\* returns False when the collection is not returned (nothing is posted) or
\* the POST is not answered with 204; sync_collection ignores the result.
UpdateMetadata(answer) ==
    /\ UNCHANGED <<matcherVars, pureVars>>
    /\ pc = "metadata"
    /\ calls' = IF answer = "not found" THEN calls
                ELSE Append(calls, Call("metadata", jellyfin_id, <<>>, answer = "updated"))
    /\ metadata_result' = IF answer = "updated" THEN "True" ELSE "False"
    /\ pc' = "poster"
    /\ UNCHANGED <<outcome, serverVars, runVars, collVars, syncVars, prev, repeated,
                   created>>

\* The rest of sync_collection: _upload_poster and _add_missing_to_arr, which
\* can raise (the poster generator, TMDb's get_series_details); else the
\* counts are returned.
PosterAndArr(ok) ==
    /\ UNCHANGED <<matcherVars, pureVars>>
    /\ pc = "poster"
    /\ IF ok
       THEN /\ outcome' = Returned(Len(to_add_list), Len(to_remove_list))
            /\ pc' = "returned"
       ELSE /\ outcome' = Raised("poster or arr request failed")
            /\ pc' = "raised"
    /\ UNCHANGED <<serverVars, runVars, collVars, syncVars, histVars>>

\* The next round of the loop starts from fresh locals.
EndCollection ==
    /\ UNCHANGED <<matcherVars, pureVars>>
    /\ config' = NoConfig
    /\ items' = <<>>
    /\ existing' = 0
    /\ jellyfin_id' = 0
    /\ current_ids' = {}
    /\ target_ids_list' = <<>>
    /\ to_add_list' = <<>>
    /\ to_remove_list' = <<>>
    /\ needs_reorder' = FALSE
    /\ stages' = <<>>
    /\ batch_start' = 0
    /\ outcome' = NoOutcome
    /\ calls' = <<>>
    /\ metadata_result' = "not called"
    /\ repeated' = FALSE
    /\ UNCHANGED <<serverVars, dry_run, run_args, created>>

\* Runner.run after sync_collection returned: the collection's report, with
\* the counts sync_collection set, is filed with success = True.
ReportSuccess ==
    /\ pc = "returned"
    /\ run_report' = Append(run_report,
          [CollectionReport(config.name, config.library, TRUE, "") EXCEPT
              !.items_added_to_collection = outcome.added,
              !.items_removed_from_collection = outcome.removed])
    /\ prev' = IF dry_run \/ run_args.posters_only \/ config.sync_mode # "sync"
               THEN NoPrev
               ELSE [name |-> config.name, items |-> items,
                     collection_order |-> config.collection_order,
                     sync_mode |-> config.sync_mode]
    /\ pc' = "loop"
    /\ UNCHANGED queue
    /\ EndCollection

\* ReportError of a loop whose try block is around the whole loop: the error
\* of one collection ends the run.
ReportError_EndsRun ==
    /\ pc = "raised"
    /\ run_report' = Append(run_report,
          CollectionReport(config.name, config.library, FALSE, outcome.error))
    /\ prev' = NoPrev
    /\ pc' = "loop"
    /\ queue' = <<>>
    /\ EndCollection

\* Runner.run, "except Exception as e": a fresh error report is filed and
\* the loop goes on with the next collection.
ReportError ==
    /\ pc = "raised"
    /\ run_report' = Append(run_report,
          CollectionReport(config.name, config.library, FALSE, outcome.error))
    /\ prev' = NoPrev
    /\ pc' = "loop"
    /\ UNCHANGED queue
    /\ EndCollection

\* ------------------------------------------------- matcher and scheduler
\* MediaMatcher._ensure_library_loaded for each library of libs: a library
\* that is in _library_loaded is left as it is, another one is indexed from
\* what the server holds now.
IndexAfterLoad(libs) ==
    [l \in Libraries |->
        IF l \in libs /\ l \notin _library_loaded THEN library_items[l]
        ELSE _library_items[l]]

\* A LibraryItem of the matcher's index, and Python's None in its place.
LibraryItem(library_id, tmdb_id) == [library |-> library_id, tmdb_id |-> tmdb_id]

None == [library |-> "", tmdb_id |-> 0]

\* find_in_library for an item with a TMDb id, the library being loaded:
\* the global cache first, then the index of the library.
FindResult(cache, index, tmdb_id, library_id) ==
    IF tmdb_id \in DOMAIN cache THEN cache[tmdb_id]
    ELSE IF tmdb_id \in index[library_id] THEN LibraryItem(library_id, tmdb_id)
         ELSE None

\* _ensure_library_loaded that never takes its early return.
NeedsLoad_Always(library_id) == TRUE

\* _ensure_library_loaded, "if library_id in self._library_loaded: return":
\* only a library without the mark is fetched.
NeedsLoad(library_id) == library_id \notin _library_loaded

\* A find_in_library that stores the items it found but not its misses.
CacheAfter_HitsOnly(cache, tmdb_id, result) ==
    IF result = None /\ tmdb_id \notin DOMAIN cache THEN cache
    ELSE [t \in DOMAIN cache \cup {tmdb_id} |->
             IF t = tmdb_id THEN result ELSE cache[t]]

\* self._cache once find_in_library has returned result for the TMDb id:
\* a hit is stored with its item and a miss with None.
CacheAfter(cache, tmdb_id, result) ==
    [t \in DOMAIN cache \cup {tmdb_id} |-> IF t = tmdb_id THEN result ELSE cache[t]]

\* One call to the MediaMatcher as the history records it: whether the
\* library had its mark and the id its cache entry when the call came,
\* whether get_library_items was issued, whether the library index was
\* consulted and held the id, whether the call raised, and what it returned.
MatcherCall(op, library_id, tmdb_id, load_ok) ==
    LET raised == op # "reset" /\ NeedsLoad(library_id) /\ ~load_ok
        reads  == op = "find" /\ ~raised
        index  == IndexAfterLoad({library_id})
    IN  [ op           |-> op,
          library      |-> library_id,
          tmdb_id      |-> tmdb_id,
          loaded       |-> op # "reset" /\ library_id \in _library_loaded,
          cached       |-> op = "find" /\ tmdb_id \in DOMAIN _cache,
          fetched      |-> op # "reset" /\ NeedsLoad(library_id),
          raised       |-> raised,
          index_lookup |-> reads /\ tmdb_id \notin DOMAIN _cache,
          in_index     |-> reads /\ tmdb_id \in index[library_id],
          result       |-> IF reads THEN FindResult(_cache, index, tmdb_id, library_id)
                           ELSE None ]

NoCall ==
    [ op |-> "none", library |-> "", tmdb_id |-> 0, loaded |-> FALSE, cached |-> FALSE,
      fetched |-> FALSE, raised |-> FALSE, index_lookup |-> FALSE, in_index |-> FALSE,
      result |-> None ]

\* The "schedule" command's jobs collections_sync and posters_regeneration
\* call runner.run(scheduled=True) on the one Runner of the process.  The
\* first call runs the startup sequence: when the required services answer,
\* preload_libraries loads the libraries (those of preloaded succeed, the
\* error of another is logged); when they do not, the run is aborted.
\* _startup_done is set in both cases.  No call resets the matcher.
ScheduledRunStart(startup_ok, preloaded) ==
    /\ pc = "idle"
    /\ _startup_done' = TRUE
    /\ IF _startup_done
       THEN /\ pc' = "matching"
            /\ UNCHANGED <<_library_loaded, _library_items>>
       ELSE IF startup_ok
            THEN /\ _library_items' = IndexAfterLoad(preloaded)
                 /\ _library_loaded' = _library_loaded \cup preloaded
                 /\ pc' = "matching"
            ELSE /\ pc' = "idle"
                 /\ UNCHANGED <<_library_loaded, _library_items>>
    /\ lookups' = {}
    /\ last_call' = NoCall
    /\ UNCHANGED <<engineVars, library_items, _cache, pureVars>>

\* MediaMatcher._ensure_library_loaded(library_id): a library with the mark
\* is left alone; another one is fetched with get_library_items, indexed by
\* TMDb id and marked.  When the fetch fails the call raises before the
\* index or the mark is written.
EnsureLibraryLoaded(library_id, load_ok) ==
    /\ pc = "matching"
    /\ IF NeedsLoad(library_id) /\ load_ok
       THEN /\ _library_items' = IndexAfterLoad({library_id})
            /\ _library_loaded' = _library_loaded \cup {library_id}
       ELSE UNCHANGED <<_library_items, _library_loaded>>
    /\ last_call' = MatcherCall("ensure", library_id, 0, load_ok)
    /\ UNCHANGED <<pc, engineVars, library_items, _startup_done, _cache, lookups,
                   pureVars>>

\* build_collection matches one item that has a TMDb id:
\* matcher.find_in_library(item, library_id).  A library that is not loaded
\* is loaded first; when that fails the call raises and the matcher is as
\* before.
FindInLibrary(tmdb_id, library_id, load_ok) ==
    /\ pc = "matching"
    /\ IF ~NeedsLoad(library_id) \/ load_ok
       THEN LET index == IndexAfterLoad({library_id})
                result == FindResult(_cache, index, tmdb_id, library_id)
            IN  /\ _library_items' = index
                /\ _library_loaded' = _library_loaded \cup {library_id}
                /\ _cache' = CacheAfter(_cache, tmdb_id, result)
                /\ lookups' = lookups \cup
                      {[tmdb_id |-> tmdb_id, library |-> library_id,
                        first |-> lookups = {},
                        found |-> result # None,
                        on_server |-> tmdb_id \in library_items[library_id]]}
       ELSE UNCHANGED <<_library_items, _library_loaded, _cache, lookups>>
    /\ last_call' = MatcherCall("find", library_id, tmdb_id, load_ok)
    /\ UNCHANGED <<pc, engineVars, library_items, _startup_done, pureVars>>

\* build_collection with its matching loop: the first find_in_library loads
\* the collection's library unless it carries the loaded mark.  When
\* get_library_items fails, find_in_library raises out of build_collection
\* and the matcher is as before; otherwise the library is indexed and marked
\* and the collection is returned.
BuildLoadsLibrary(load_ok, mode, its) ==
    /\ Selected
    /\ LET library_id == Head(queue).library
       IN  IF NeedsLoad(library_id) /\ ~load_ok
           THEN /\ BuildFails("library load failed")
                /\ UNCHANGED <<_library_items, _library_loaded>>
           ELSE /\ BuildReturns("custom", mode, its)
                /\ _library_items' = IndexAfterLoad({library_id})
                /\ _library_loaded' = _library_loaded \cup {library_id}
    /\ UNCHANGED <<library_items, _startup_done, _cache, lookups, last_call, pureVars>>

\* MediaMatcher.reset(): the result cache, the loaded marks and the library
\* indexes are cleared.
Reset ==
    /\ pc = "matching"
    /\ _cache' = <<>>
    /\ _library_loaded' = {}
    /\ _library_items' = [l \in Libraries |-> {}]
    /\ last_call' = MatcherCall("reset", "", 0, TRUE)
    /\ UNCHANGED <<pc, engineVars, library_items, _startup_done, lookups, pureVars>>

\* The scheduled run is through.
ScheduledRunEnd ==
    /\ pc = "matching"
    /\ pc' = "idle"
    /\ lookups' = {}
    /\ UNCHANGED <<engineVars, library_items, _startup_done, _cache, _library_loaded,
                   _library_items, last_call, pureVars>>

\* Between two runs an item is added to a library of the server.
ServerAddsItem(tmdb_id, library_id) ==
    /\ pc = "idle"
    /\ tmdb_id \notin library_items[library_id]
    /\ library_items' = [library_items EXCEPT ![library_id] = @ \cup {tmdb_id}]
    /\ UNCHANGED <<pc, engineVars, _startup_done, _cache, _library_loaded,
                   _library_items, lookups, last_call, pureVars>>

\* ---------------------------------------------------------- _fetch_items
\* The source directives of a collection in the order in which _fetch_items
\* goes through them.
SourceOrder ==
    << "tmdb_trending_weekly", "tmdb_trending_daily", "tmdb_popular", "tmdb_discover",
       "tmdb_list", "imdb_chart", "imdb_list", "radarr_taglist", "sonarr_taglist",
       "trakt_trending", "trakt_popular", "trakt_chart" >>

\* The directives the collections of the model declare.
DeclaredKinds == {"tmdb_popular", "tmdb_list"}

\* The MediaItems the providers return: None is written 0 for an id or a
\* year and "" for a string, which the truth tests of the code treat alike.
\* A title is the sequence of its characters, <<>> for "" and None.
MediaItem(tmdb_id, imdb_id, title, year) ==
    [tmdb_id |-> tmdb_id, imdb_id |-> imdb_id, tvdb_id |-> 0, title |-> title,
     year |-> year]

MediaItems ==
    { MediaItem(1, "", <<"a">>, 2020), MediaItem(1, "tt1", <<"b">>, 2021),
      MediaItem(0, "tt1", <<"a">>, 2020), MediaItem(0, "", <<"A">>, 2020),
      MediaItem(0, "", <<>>, 0), MediaItem(2, "", <<"b">>, 2021),
      MediaItem(0, "", <<"T", "h", "e", " ", "a">>, 2020) }

\* str(n) on the ids of the model.
Str(n) == IF n = 0 THEN "0" ELSE IF n = 1 THEN "1" ELSE "2"

\* title.lower(): every upper-case letter is replaced by its lower-case one.
Lower(title) ==
    LET LowerChar(c) ==
            CASE c = "A" -> "a" [] c = "H" -> "h" [] c = "M" -> "m" [] c = "T" -> "t"
              [] OTHER -> c
    IN  [k \in 1..Len(title) |-> LowerChar(title[k])]

\* "for article in [...]: if title.startswith(article): title = title[len(article):]"
RECURSIVE StripArticles(_, _)
StripArticles(title, articles) ==
    IF articles = <<>> THEN title
    ELSE LET article == Head(articles)
             starts == /\ Len(title) >= Len(article)
                       /\ SubSeq(title, 1, Len(article)) = article
         IN  StripArticles(IF starts THEN SubSeq(title, Len(article) + 1, Len(title))
                           ELSE title,
                           Tail(articles))

\* " ".join(title.split()): the words of the title with one space between
\* them; acc is what has been joined so far.
RECURSIVE JoinSplit(_, _)
JoinSplit(title, acc) ==
    IF title = <<>>
    THEN (IF acc # <<>> /\ acc[Len(acc)] = " " THEN SubSeq(acc, 1, Len(acc) - 1) ELSE acc)
    ELSE IF Head(title) = " "
    THEN JoinSplit(Tail(title),
                   IF acc = <<>> \/ acc[Len(acc)] = " " THEN acc ELSE Append(acc, " "))
    ELSE JoinSplit(Tail(title), Append(acc, Head(title)))

\* _normalize_title without the removal of the articles.
_normalize_title_KeepArticles(title) ==
    LET AlnumOrSpace(c) == c \notin {"!", "-", ":", "'"}
    IN  JoinSplit(SelectSeq(Lower(title), AlnumOrSpace), <<>>)

\* MediaMatcher._normalize_title: lower case, the leading articles removed
\* (each article of the list tried once, in the order of the list), the
\* characters that are neither alphanumeric nor space removed, the
\* whitespace normalised.  The punctuation of the model is ! - : and '.
_normalize_title(title) ==
    LET articles == << <<"t", "h", "e", " ">>, <<"a", " ">>, <<"a", "n", " ">>,
                       <<"l", "e", " ">>, <<"l", "a", " ">>, <<"l", "e", "s", " ">>,
                       <<"u", "n", " ">>, <<"u", "n", "e", " ">> >>
        AlnumOrSpace(c) == c \notin {"!", "-", ":", "'"}
    IN  JoinSplit(SelectSeq(StripArticles(Lower(title), articles), AlnumOrSpace), <<>>)

\* DedupeKey with the title normalised as the matcher normalises it.
DedupeKey_NormalizedTitle(item) ==
    IF item.tmdb_id # 0 THEN [ns |-> "tmdb", id |-> <<Str(item.tmdb_id)>>, year |-> 0]
    ELSE IF item.imdb_id # "" THEN [ns |-> "imdb", id |-> <<item.imdb_id>>, year |-> 0]
    ELSE IF item.tvdb_id # 0 THEN [ns |-> "tvdb", id |-> <<Str(item.tvdb_id)>>, year |-> 0]
    ELSE IF item.title # <<>> THEN [ns |-> "title", id |-> _normalize_title(item.title),
                                    year |-> item.year]
    ELSE [ns |-> "", id |-> <<>>, year |-> 0]

\* The dedupe key of _fetch_items: ("tmdb", str(tmdb_id)), else ("imdb",
\* imdb_id), else ("tvdb", str(tvdb_id)), else ("title", "<title>::<year or
\* 0>"), the last written with the year aside; None (ns "") without any.
\* The second component is a sequence: the one id string, or the characters
\* of the lower-cased title.
DedupeKey(item) ==
    IF item.tmdb_id # 0 THEN [ns |-> "tmdb", id |-> <<Str(item.tmdb_id)>>, year |-> 0]
    ELSE IF item.imdb_id # "" THEN [ns |-> "imdb", id |-> <<item.imdb_id>>, year |-> 0]
    ELSE IF item.tvdb_id # 0 THEN [ns |-> "tvdb", id |-> <<Str(item.tvdb_id)>>, year |-> 0]
    ELSE IF item.title # <<>> THEN [ns |-> "title", id |-> Lower(item.title),
                                    year |-> item.year]
    ELSE [ns |-> "", id |-> <<>>, year |-> 0]

\* The loop over all_items with its set of seen keys: an item without key
\* or with a key seen before is left out.
RECURSIVE DedupeFrom(_, _)
DedupeFrom(all_items, seen) ==
    IF all_items = <<>> THEN <<>>
    ELSE LET key == DedupeKey(Head(all_items))
         IN  IF key.ns = "" \/ key \in seen
             THEN DedupeFrom(Tail(all_items), seen)
             ELSE <<Head(all_items)>> \o DedupeFrom(Tail(all_items), seen \cup {key})

RECURSIVE Reverse(_)
Reverse(s) == IF s = <<>> THEN <<>> ELSE Reverse(Tail(s)) \o <<Head(s)>>

\* A deduplication that keeps the last item of a key.
Dedupe_KeepLast(all_items) == Reverse(DedupeFrom(Reverse(all_items), {}))

\* _fetch_items, "Deduplicate while preserving order".
Dedupe(all_items) == DedupeFrom(all_items, {})

\* An aggregator that goes through the directives as the collection
\* declares them.
FetchOrder_Declared(declared) == declared

\* The directives _fetch_items calls the providers for: those the
\* CollectionConfig holds, one "if config.<directive>" after the other.
FetchOrder(declared) == SelectSeq(SourceOrder, LAMBDA kind : kind \in Range(declared))

\* all_items.extend(...) for the given directives in turn.
RECURSIVE Extend(_, _)
Extend(kinds, provider) ==
    IF kinds = <<>> THEN <<>>
    ELSE provider[Head(kinds)] \o Extend(Tail(kinds), provider)

\* _fetch_items(config, media_type): a provider call that raises ends the
\* function with its exception, no clause catches it; otherwise the merged
\* list is deduplicated and returned.
fetch_items(arguments) ==
    LET kinds == FetchOrder(arguments.declared)
        all_items == Extend(kinds, arguments.provider)
    IN  IF Range(kinds) \cap arguments.fails # {}
        THEN [called |-> TRUE, raised |-> TRUE, all_items |-> <<>>, items |-> <<>>]
        ELSE [called |-> TRUE, raised |-> FALSE, all_items |-> all_items,
              items |-> Dedupe(all_items)]

\* build_collection calls _fetch_items for the collection N1 of library L1.
FetchItems ==
    /\ fn_args.fn = "_fetch_items"
    /\ ~fn_result.called
    /\ fn_result' = fetch_items(fn_args)
    /\ UNCHANGED <<pc, engineVars, matcherVars, fn_args>>

\* The exception of _fetch_items leaves build_collection, which has no
\* handler, and reaches the except clause of Runner.run: the collection gets
\* its error report.
FetchRaised ==
    /\ fn_args.fn = "_fetch_items"
    /\ fn_result.called
    /\ fn_result.raised
    /\ run_report = <<>>
    /\ run_report' = <<CollectionReport("N1", "L1", FALSE, "provider call failed")>>
    /\ UNCHANGED <<pc, outcome, serverVars, dry_run, run_args, queue, collVars,
                   syncVars, histVars, matcherVars, pureVars>>

\* ------------------------------------------------------------ _is_match
\* abs(a - b)
Abs(n) == IF n < 0 THEN 0 - n ELSE n

\* MediaMatcher._is_match(item, lib_item): the first id namespace in which
\* both sides carry an id decides; without one, the normalised titles and,
\* when both sides carry a year, the years decide.
_is_match(item, lib_item) ==
    IF item.tmdb_id # 0 /\ lib_item.tmdb_id # 0 THEN item.tmdb_id = lib_item.tmdb_id
    ELSE IF item.imdb_id # "" /\ lib_item.imdb_id # "" THEN item.imdb_id = lib_item.imdb_id
    ELSE IF item.tvdb_id # 0 /\ lib_item.tvdb_id # 0 THEN item.tvdb_id = lib_item.tvdb_id
    ELSE IF _normalize_title(item.title) # _normalize_title(lib_item.title) THEN FALSE
    ELSE IF item.year # 0 /\ lib_item.year # 0 THEN Abs(item.year - lib_item.year) <= 1
    ELSE TRUE

\* find_in_library, "Find best match": _is_match is applied to a candidate
\* and an item the title search returned.
IsMatch ==
    /\ fn_args.fn = "_is_match"
    /\ ~fn_result.called
    /\ fn_result' = [called |-> TRUE, match |-> _is_match(fn_args.item, fn_args.lib_item)]
    /\ UNCHANGED <<pc, engineVars, matcherVars, fn_args>>

\* ------------------------------------------- _sort_items_for_collection
\* A CollectionItem with the given sort metadata; None is written 0.
SortItem(title, year, premiere_date, date_created, rating, sort_name) ==
    [ title |-> title, year |-> year, jellyfin_id |-> 0,
      premiere_date |-> premiere_date, date_created |-> date_created,
      community_rating |-> rating, critic_rating |-> rating, sort_name |-> sort_name ]

\* Titles "a", "b" and "B"; years, dates (yyyymmdd) and ratings of the model.
Titles == {1, 2, 0 - 8}

Years == {0, 2020, 2021, 2022}

Dates == {0, 20210101, 20210615}

Ratings == {0, 5, 7}

\* The items sorted under an order: the metadata the order reads varies.
SortItems(order) ==
    CASE order = "PremiereDate" ->
           {SortItem(t, y, d, 0, 0, 0) : t \in {1, 2}, y \in Years, d \in Dates}
      [] order = "DateCreated" ->
           {SortItem(t, 2020, 0, d, 0, 0) : t \in Titles, d \in Dates}
      [] order \in {"CommunityRating", "CriticRating"} ->
           {SortItem(t, 2020, 0, 0, r, 0) : t \in Titles, r \in Ratings}
      [] order = "SortName" ->
           {SortItem(t, 2020, 0, 0, 0, n) : t \in Titles, n \in {0, 1, 2}}
      [] OTHER -> {SortItem(t, 2020, 0, 0, 0, 0) : t \in Titles}

\* sync_collection sorts the items of the collection:
\* self._sort_items_for_collection(collection.items, config.collection_order).
SortItemsForCollection ==
    /\ fn_args.fn = "_sort_items_for_collection"
    /\ ~fn_result.called
    /\ \E sorted_items \in _sort_items_for_collection(fn_args.items, fn_args.order) :
          fn_result' = [called |-> TRUE, sorted_items |-> sorted_items]
    /\ UNCHANGED <<pc, engineVars, matcherVars, fn_args>>

\* -------------------------------------------------------- _apply_filters
\* Python's None where 0 is a value of its own: an absent year, vote average
\* or vote count of a MediaItem.
Absent == 0 - 1

\* The truth test "if x" of a number or None.
Truthy(x) == x # Absent /\ x # 0

\* The part of a MediaItem that _apply_filters reads.  A genre is a TMDb
\* genre id, or a genre name, written as a negative number.
FilterItem(year, vote_average, vote_count, original_country, original_language, genres) ==
    [ year |-> year, vote_average |-> vote_average, vote_count |-> vote_count,
      original_country |-> original_country, original_language |-> original_language,
      genres |-> genres ]

\* jfc.models.collection.CollectionFilter with the fields that are bounds or
\* exclusion and inclusion sets; an unset bound (None) is written 0.
NoFilter ==
    [ year_gte |-> 0, year_lte |-> 0, vote_average_gte |-> 0, vote_average_lte |-> 0,
      vote_count_gte |-> 0, vote_count_lte |-> 0, critic_rating_gte |-> 0,
      tmdb_vote_count_gte |-> 0, with_genres |-> {}, without_genres |-> {},
      country_not |-> {}, origin_country_not |-> {}, original_language_not |-> {} ]

\* item_genre_ids: "g if isinstance(g, int) else int(g) if str(g).isdigit()
\* else 0".
GenreIds(item) == {IF g > 0 THEN g ELSE 0 : g \in Range(item.genres)}

\* An any(...) that asks for every value of the filter.
AnyIn_Every(wanted, ids) == wanted \subseteq ids

\* any(g in item_genre_ids for g in filter_genres)
AnyIn(wanted, ids) == wanted \cap ids # {}

\* The loop body of _apply_filters: the filter whose "continue" leaves the
\* item out, "" when the item reaches filtered.append.
DroppedBy(filters, item) ==
    IF Truthy(filters.year_gte) /\ Truthy(item.year) /\ item.year < filters.year_gte
    THEN "year_gte"
    ELSE IF Truthy(filters.year_lte) /\ Truthy(item.year) /\ item.year > filters.year_lte
    THEN "year_lte"
    ELSE IF /\ Truthy(filters.vote_average_gte) /\ Truthy(item.vote_average)
            /\ item.vote_average < filters.vote_average_gte
    THEN "vote_average_gte"
    ELSE IF /\ Truthy(filters.critic_rating_gte) /\ Truthy(item.vote_average)
            /\ item.vote_average < filters.critic_rating_gte
    THEN "critic_rating_gte"
    ELSE IF /\ Truthy(filters.tmdb_vote_count_gte) /\ Truthy(item.vote_count)
            /\ item.vote_count < filters.tmdb_vote_count_gte
    THEN "tmdb_vote_count_gte"
    ELSE IF /\ filters.country_not # {} /\ item.original_country # ""
            /\ item.original_country \in filters.country_not
    THEN "country_not"
    ELSE IF /\ filters.origin_country_not # {} /\ item.original_country # ""
            /\ item.original_country \in filters.origin_country_not
    THEN "origin_country_not"
    ELSE IF /\ filters.original_language_not # {} /\ item.original_language # ""
            /\ item.original_language \in filters.original_language_not
    THEN "original_language_not"
    ELSE IF /\ filters.without_genres # {} /\ item.genres # <<>>
            /\ AnyIn(filters.without_genres, GenreIds(item))
    THEN "without_genres"
    ELSE IF /\ filters.with_genres # {} /\ item.genres # <<>>
            /\ ~AnyIn(filters.with_genres, GenreIds(item))
    THEN "with_genres"
    ELSE ""

\* _apply_filters(items, config): the items no filter leaves out, cut to
\* config.limit when a limit is set; dropped_by records the branch each
\* item took.
_apply_filters(its, filters, limit) ==
    LET filtered == SelectSeq(its, LAMBDA item : DroppedBy(filters, item) = "")
    IN  [ called |-> TRUE,
          dropped_by |-> [k \in 1..Len(its) |-> DroppedBy(filters, its[k])],
          filtered |-> IF limit # 0 THEN SubSeq(filtered, 1, Min(limit, Len(filtered)))
                       ELSE filtered ]

\* build_collection filters the fetched items:
\* self._apply_filters(items, config).
ApplyFilters ==
    /\ fn_args.fn = "_apply_filters"
    /\ ~fn_result.called
    /\ fn_result' = _apply_filters(fn_args.items, fn_args.filters, fn_args.limit)
    /\ UNCHANGED <<pc, engineVars, matcherVars, fn_args>>

\* ----------------------------------------------------- _should_run_today
\* jfc.models.collection.ScheduleType
ScheduleType == {"daily", "weekly", "monthly", "never"}

\* str.lower() on the day names of the model.
LowerDay(name) ==
    CASE name = "Sunday" -> "sunday"
      [] name = "Monday" -> "monday"
      [] name = "Tuesday" -> "tuesday"
      [] OTHER -> name

\* A _should_run_today that lets every collection run.
_should_run_today_Always(schedule, today) == TRUE

\* Runner._should_run_today(schedule), today being datetime.now(): its
\* weekday is strftime("%A") and its day the day of the month.  day_of_week
\* None is written "" and day_of_month None 0.
_should_run_today(schedule, today) ==
    IF schedule.schedule_type = "daily" THEN TRUE
    ELSE IF schedule.schedule_type = "never" THEN FALSE
    ELSE IF schedule.schedule_type = "weekly"
    THEN LowerDay(today.weekday) =
            LowerDay(IF schedule.day_of_week # "" THEN schedule.day_of_week ELSE "sunday")
    ELSE IF schedule.schedule_type = "monthly"
    THEN today.day = (IF schedule.day_of_month # 0 THEN schedule.day_of_month ELSE 1)
    ELSE TRUE

\* Runner.run reaches the collection N1 in its loop: the collections filter
\* and the schedule check decide whether the try block with build_collection
\* is entered.
CheckSchedule ==
    /\ fn_args.fn = "_should_run_today"
    /\ ~fn_result.called
    /\ fn_result' =
          [ called |-> TRUE,
            processed |->
               /\ ~(fn_args.collections # {} /\ "N1" \notin fn_args.collections)
               /\ ~(/\ fn_args.scheduled
                    /\ ~fn_args.ignore_schedule
                    /\ ~_should_run_today(fn_args.schedule, fn_args.today)) ]
    /\ UNCHANGED <<pc, engineVars, matcherVars, fn_args>>

\* ------------------------------------------------------- specifications
\* ------------------------- add_to_collection / remove_from_collection
\* Batch with one id more than the batch size: consecutive batches overlap.
Batch_Overlapping(item_ids, i) ==
    SubSeq(item_ids, i + 1, Min(i + COLLECTION_ITEMS_BATCH_SIZE + 1, Len(item_ids)))

\* batch = item_ids[i : i + self.COLLECTION_ITEMS_BATCH_SIZE]
Batch(item_ids, i) ==
    SubSeq(item_ids, i + 1, Min(i + COLLECTION_ITEMS_BATCH_SIZE, Len(item_ids)))

\* One step of JellyfinClient.add_to_collection (op "add") or
\* remove_from_collection (op "remove") on BoxSet 1, called with
\* fn_args.item_ids: an empty list returns True at once; else the batch at
\* the loop variable i is sent and the server answers it with 204 (ok, and it
\* applies the batch) or another status, which ends the call with False;
\* after the last batch the call returns True.
ClientCall(op, ok) ==
    /\ fn_args.fn = op
    /\ IF fn_result.called THEN fn_result.returned = "running" ELSE TRUE
    /\ LET item_ids == fn_args.item_ids
           i == IF fn_result.called THEN fn_result.i ELSE 0
           sent == IF fn_result.called THEN fn_result.sent ELSE <<>>
           batch == Batch(item_ids, i)
           members == boxsets[1].Items
       IN  IF item_ids = <<>>
           THEN /\ fn_result' = [called |-> TRUE, i |-> 0, sent |-> <<>>,
                                 returned |-> "True"]
                /\ UNCHANGED boxsets
           ELSE /\ boxsets' = IF ok
                              THEN [boxsets EXCEPT ![1].Items =
                                       IF op = "add" THEN ServerAdd(members, batch)
                                       ELSE ServerRemove(members, batch)]
                              ELSE boxsets
                /\ fn_result' =
                      [called |-> TRUE,
                       i |-> i + COLLECTION_ITEMS_BATCH_SIZE,
                       sent |-> Append(sent, [ids |-> batch, ok |-> ok]),
                       returned |-> IF BatchFailed(ok) THEN "False"
                                    ELSE IF i + COLLECTION_ITEMS_BATCH_SIZE < Len(item_ids)
                                         THEN "running" ELSE "True"]
    /\ UNCHANGED <<pc, outcome, runVars, collVars, syncVars, histVars, matcherVars,
                   fn_args>>

AddToCollection(ok) == ClientCall("add", ok)

RemoveFromCollection(ok) == ClientCall("remove", ok)

\* ------------------------------------------- _fetch_paginated_results
\* The raw results TMDb serves on a page: sizes[p] results on page p, the
\* results numbered 1, 2, ... in the provider's order across the pages; a
\* page past the last one has no results.
RECURSIVE ResultsBefore(_, _)
ResultsBefore(sizes, page) ==
    IF page <= 1 THEN 0 ELSE ResultsBefore(sizes, page - 1) + sizes[page - 1]

PageResults(sizes, page) ==
    IF page > Len(sizes) THEN <<>>
    ELSE [k \in 1..sizes[page] |-> [id |-> ResultsBefore(sizes, page) + k]]

\* The parser handed to _fetch_paginated_results (_parse_movie,
\* _parse_series): the MediaItem of a raw result.
ParseResult(raw) == [tmdb_id |-> raw.id, title |-> raw.id]

\* "for item in results: if len(all_results) >= limit: break; append"
RECURSIVE AppendUpTo(_, _, _)
AppendUpTo(all_results, results, limit) ==
    IF results = <<>> \/ Len(all_results) >= limit THEN all_results
    ELSE AppendUpTo(Append(all_results, ParseResult(Head(results))), Tail(results), limit)

\* MorePages that goes on until a page comes back empty, whatever
\* total_pages says.
MorePages_UntilEmpty(page, total_pages, results) == results # <<>>

\* "if page >= total_pages or not results: break", negated
MorePages(page, total_pages, results) == ~(page >= total_pages \/ results = <<>>)

\* One round of the loop of TMDbClient._fetch_paginated_results: with limit
\* reached (a limit of 0) the call returns without a request; else the page is
\* requested, an error status raises (raise_for_status), and the results are
\* appended up to the limit; the call returns when the limit is reached,
\* the page was the last one or it was empty, and goes on with the next page
\* otherwise.
FetchPage(ok) ==
    /\ fn_args.fn = "_fetch_paginated_results"
    /\ IF fn_result.called THEN fn_result.state = "running" ELSE TRUE
    /\ LET limit == fn_args.limit
           page == IF fn_result.called THEN fn_result.page ELSE 1
           requests == IF fn_result.called THEN fn_result.requests ELSE <<>>
           all_results == IF fn_result.called THEN fn_result.all_results ELSE <<>>
           results == PageResults(fn_args.sizes, page)
           total_pages == Len(fn_args.sizes)
           collected == AppendUpTo(all_results, results, limit)
       IN  fn_result' =
             IF ~(Len(all_results) < limit)
             THEN [called |-> TRUE, state |-> "returned", page |-> page,
                   requests |-> requests, all_results |-> all_results]
             ELSE IF ~ok
             THEN [called |-> TRUE, state |-> "raised", page |-> page,
                   requests |-> Append(requests, page), all_results |-> all_results]
             ELSE IF MorePages(page, total_pages, results) /\ Len(collected) < limit
             THEN [called |-> TRUE, state |-> "running", page |-> page + 1,
                   requests |-> Append(requests, page), all_results |-> collected]
             ELSE [called |-> TRUE, state |-> "returned", page |-> page,
                   requests |-> Append(requests, page), all_results |-> collected]
    /\ UNCHANGED <<pc, engineVars, matcherVars, fn_args>>

\* ---------------------------------------------------- get_library_items
\* The server's answer to GET /Items with Limit and StartIndex for a library
\* of total items, numbered 1..total in the server's order: the items from
\* StartIndex on, as many as asked for but no more than the server's own cap
\* on the size of a response.  Item j carries the TMDb id j when j is in
\* with_tmdb, else none (written 0).
ItemsPage(total, with_tmdb, cap, limit, start_index) ==
    LET count == Min(Min(limit, cap), IF start_index < total THEN total - start_index ELSE 0)
    IN  [k \in 1..count |->
            [jellyfin_id |-> start_index + k,
             tmdb_id |-> IF start_index + k \in with_tmdb THEN start_index + k ELSE 0]]

\* "if fetched < current_page_size: break"
LastPage(fetched, current_page_size) == fetched < current_page_size

\* _ensure_library_loaded, "Index by TMDb ID": the TMDb ids of the items
\* fetched that have one.
IndexByTmdbId(library) == {library[k].tmdb_id : k \in 1..Len(library)} \ {0}

\* One round of the loop of JellyfinClient.get_library_items: with limit
\* items collected the call returns; else min(page_size, remaining) items are
\* requested at the offset, an error status raises, an empty page ends the
\* call, a page is appended in full and the offset moved past it, and a page
\* shorter than asked for ends the call.
GetLibraryItems(ok) ==
    /\ fn_args.fn = "get_library_items"
    /\ IF fn_result.called THEN fn_result.state = "running" ELSE TRUE
    /\ LET limit == fn_args.limit
           offset == IF fn_result.called THEN fn_result.offset ELSE fn_args.start_index
           library == IF fn_result.called THEN fn_result.items ELSE <<>>
           requests == IF fn_result.called THEN fn_result.requests ELSE <<>>
           remaining == limit - Len(library)
           current_page_size == Min(page_size, remaining)
           page == ItemsPage(fn_args.total, fn_args.with_tmdb, fn_args.cap,
                             current_page_size, offset)
           request == [Limit |-> current_page_size, StartIndex |-> offset]
       IN  fn_result' =
             IF ~(Len(library) < limit)
             THEN [called |-> TRUE, state |-> "returned", offset |-> offset,
                   items |-> library, requests |-> requests]
             ELSE IF ~ok
             THEN [called |-> TRUE, state |-> "raised", offset |-> offset,
                   items |-> library, requests |-> Append(requests, request)]
             ELSE IF page = <<>>
             THEN [called |-> TRUE, state |-> "returned", offset |-> offset,
                   items |-> library, requests |-> Append(requests, request)]
             ELSE [called |-> TRUE,
                   state |-> IF LastPage(Len(page), current_page_size)
                                \/ ~(Len(library \o page) < limit)
                             THEN "returned" ELSE "running",
                   offset |-> offset + Len(page),
                   items |-> library \o page,
                   requests |-> Append(requests, request)]
    /\ UNCHANGED <<pc, engineVars, matcherVars, fn_args>>

\* ------------------------------------------------- _fetch_tmdb_discover
\* limit_multiplier without "min(limit_multiplier, 4.0)".
limit_multiplier_Uncapped(filters) ==
    IF filters = <<>> THEN 2
    ELSE 2 + Len(filters.original_language_not) + Len(filters.origin_country_not)

\* limit_multiplier of _fetch_tmdb_discover, counted in halves (the floats
\* 1.0, 1.5, ... 4.0 are the numbers 2, 3, ... 8): 1.0, plus 0.5 for each
\* entry of filters.original_language_not and of filters.origin_country_not
\* when there are filters (none is written <<>>), capped at 4.0.
limit_multiplier(filters) ==
    Min(IF filters = <<>> THEN 2
        ELSE 2 + (IF filters.original_language_not # <<>>
                  THEN Len(filters.original_language_not) ELSE 0)
               + (IF filters.origin_country_not # <<>>
                  THEN Len(filters.origin_country_not) ELSE 0),
        8)

\* int(x) of a number of halves: the integer part, rounded towards zero.
IntOfHalves(halves) ==
    IF halves >= 0 THEN halves \div 2 ELSE 0 - ((0 - halves) \div 2)

\* adjusted_limit = int(base_limit * limit_multiplier), with
\* base_limit = discover.get("limit", 20) (no "limit" is written Absent).
adjusted_limit(discover, filters) ==
    LET base_limit == IF discover.limit = Absent THEN 20 ELSE discover.limit
    IN  IntOfHalves(base_limit * limit_multiplier(filters))

\* CollectionBuilder._fetch_tmdb_discover: the call of tmdb.discover_movies
\* or tmdb.discover_series it makes, with the limit it asks for; the other
\* parameters of the directive are handed over as they are.
FetchTmdbDiscover ==
    /\ fn_args.fn = "_fetch_tmdb_discover"
    /\ ~fn_result.called
    /\ fn_result' =
          [called |-> TRUE,
           endpoint |-> IF fn_args.media_type = "movie" THEN "discover_movies"
                        ELSE "discover_series",
           limit |-> adjusted_limit(fn_args.discover, fn_args.filters)]
    /\ UNCHANGED <<pc, engineVars, matcherVars, fn_args>>

\* ---------------------------------------------------- the schedule command
\* The coroutines of one "jfc schedule" process that call runner.run on its
\* one Runner: the initial sync that _run_scheduler awaits (run_on_start) and
\* the cron jobs collection_sync and poster_regeneration.
Jobs == {"run_on_start", "collection_sync", "poster_regeneration"}

\* A coroutine that has not been started, and the state of each of them: pc
\* is the await the coroutine is suspended at, the other fields are the
\* locals of its sync_collection.
IdleTask ==
    [pc |-> "idle", posters_only |-> FALSE, raised |-> FALSE, target |-> <<>>,
     existing |-> 0, jellyfin_id |-> 0, stages |-> <<>>, batch_start |-> 0]

TasksOf(result) == IF result.called THEN result.tasks ELSE [job \in Jobs |-> IdleTask]

\* runner.run(...) is entered: build_collection has produced the target list
\* (the sorted items that have a jellyfin_id) and sync_collection is at its
\* first await, get_collections.  A posters_only run carries no target, its
\* sync_collection skips the item sync.
StartTask(job, posters_only, its) ==
    /\ fn_args.fn = "schedule"
    /\ TasksOf(fn_result)[job].pc = "idle"
    /\ \E sorted_items \in sort_items_for_collection(its, fn_args.collection_order) :
          fn_result' =
             [called |-> TRUE,
              tasks |-> [TasksOf(fn_result) EXCEPT ![job] =
                            [IdleTask EXCEPT !.pc = "get_collections",
                                             !.posters_only = posters_only,
                                             !.target = IF posters_only THEN <<>>
                                                        ELSE TargetIdsList(sorted_items)]]]
    /\ UNCHANGED <<pc, engineVars, matcherVars, fn_args>>

\* "if run_on_start: await collections_sync()" in _run_scheduler, after the
\* cron jobs have been added to the scheduler.
RunOnStart(its) ==
    /\ fn_args.run_on_start
    /\ StartTask("run_on_start", FALSE, its)

\* The Scheduler starts the coroutine of a cron job when its time has come,
\* as a task of the event loop of the process beside those that are
\* suspended in an await; the poster job exists when a posters cron is set.
JobFires(job, its) ==
    /\ job \in {"collection_sync", "poster_regeneration"}
    /\ job = "poster_regeneration" => fn_args.posters_cron
    /\ StartTask(job, job = "poster_regeneration", its)

\* The await a task goes to once it knows its BoxSet.
AfterTargetOf(task) == IF task.posters_only THEN "finish" ELSE "get_items"

\* The task of a job resumes from the await it is suspended at and runs to
\* its next await: sync_collection's get_collections, create_collection,
\* get_collection_items with the diff, one batch of add_to_collection or
\* remove_from_collection, and the rest of the run (metadata, poster).  A
\* call that fails (ok false) raises out of runner.run's collection, and the
\* task ends.  Runner.run and sync_collection take no lock.
TaskStep(job, ok) ==
    /\ fn_args.fn = "schedule"
    /\ fn_result.called
    /\ LET task == fn_result.tasks[job]
           Becomes(next) == fn_result' = [fn_result EXCEPT !.tasks[job] = next]
           Fails == Becomes([task EXCEPT !.pc = "done", !.raised = TRUE])
       IN  /\ task.pc \in {"get_collections", "create", "get_items", "apply", "finish"}
           /\ IF task.pc = "finish"
              THEN Becomes([task EXCEPT !.pc = "done"]) /\ UNCHANGED boxsets
              ELSE IF ~ok /\ task.pc # "apply"
              THEN Fails /\ UNCHANGED boxsets
              ELSE IF task.pc = "get_collections"
              THEN LET found == ExistingMatch(get_collections, fn_args.name)
                   IN  /\ Becomes([task EXCEPT !.existing = found, !.jellyfin_id = found,
                                               !.pc = IF found # 0 THEN AfterTargetOf(task)
                                                      ELSE "create"])
                       /\ UNCHANGED boxsets
              ELSE IF task.pc = "create"
              THEN /\ boxsets' = Append(boxsets, [Name |-> fn_args.name, Items |-> <<>>])
                   /\ Becomes([task EXCEPT !.jellyfin_id = Len(boxsets) + 1,
                                           !.pc = AfterTargetOf(task)])
              ELSE IF task.pc = "get_items"
              THEN LET current == Range(get_collection_items(task.jellyfin_id))
                       to_add == ToAddList(task.target, current)
                       to_remove == ToRemove(fn_args.sync_mode, current, task.target)
                   IN  /\ \E remove_list \in ListsOfSet(to_remove),
                             current_list \in ListsOfSet(current) :
                            LET reorder == NeedsReorder(fn_args.collection_order,
                                                        fn_args.sync_mode, task.existing,
                                                        to_add, remove_list)
                                todo == MembershipCalls(reorder, current_list,
                                                        task.target, to_add, remove_list)
                            IN  Becomes([task EXCEPT !.stages = todo,
                                                     !.pc = IF todo = <<>> THEN "finish"
                                                            ELSE "apply"])
                       /\ UNCHANGED boxsets
              ELSE LET call == Head(task.stages)
                       batch == Batch(call.ids, task.batch_start)
                       members == boxsets[task.jellyfin_id].Items
                       more == task.batch_start + COLLECTION_ITEMS_BATCH_SIZE < Len(call.ids)
                   IN  /\ boxsets' = IF ok
                                     THEN [boxsets EXCEPT ![task.jellyfin_id].Items =
                                              IF call.op = "add" THEN ServerAdd(members, batch)
                                              ELSE ServerRemove(members, batch)]
                                     ELSE boxsets
                       /\ IF BatchFailed(ok) THEN Fails
                          ELSE IF more
                          THEN Becomes([task EXCEPT !.batch_start =
                                           @ + COLLECTION_ITEMS_BATCH_SIZE])
                          ELSE Becomes([task EXCEPT
                                           !.batch_start = 0,
                                           !.stages = Tail(task.stages),
                                           !.pc = IF Tail(task.stages) = <<>> THEN "finish"
                                                  ELSE "apply"])
    /\ UNCHANGED <<pc, outcome, runVars, collVars, syncVars, histVars, matcherVars,
                   fn_args>>

\* The runs of the reconciler specification: "jfc run" and "jfc
\* regenerate-posters" (posters_only) for one collection.
SyncRunArgs ==
    {[libraries |-> {"L1"}, collections |-> {"N1"}, scheduled |-> FALSE,
      posters_only |-> p] : p \in BOOLEAN}

\* Runner, CollectionBuilder and MediaMatcher as constructed, no run started.
InitIdle ==
    /\ pc = "idle"
    /\ run_args = NoArgs
    /\ queue = <<>>
    /\ run_report = <<>>
    /\ config = NoConfig
    /\ items = <<>>
    /\ existing = 0
    /\ jellyfin_id = 0
    /\ current_ids = {}
    /\ target_ids_list = <<>>
    /\ to_add_list = <<>>
    /\ to_remove_list = <<>>
    /\ needs_reorder = FALSE
    /\ stages = <<>>
    /\ batch_start = 0
    /\ outcome = NoOutcome
    /\ calls = <<>>
    /\ metadata_result = "not called"
    /\ prev = NoPrev
    /\ repeated = FALSE
    /\ created = [n \in Names |-> 0]
    /\ _startup_done = FALSE
    /\ _cache = <<>>
    /\ _library_loaded = {}
    /\ _library_items = [l \in Libraries |-> {}]
    /\ lookups = {}
    /\ last_call = NoCall
    /\ fn_result = NotCalled

InitEngine == InitIdle /\ fn_args = <<>>

Init ==
    /\ boxsets \in InitBoxSets
    /\ dry_run \in BOOLEAN
    /\ library_items = [l \in Libraries |-> TmdbIds]
    /\ InitEngine

\* The steps of one collection, from build_collection to its report.
CollectionStep ==
    \/ SkipCollection
    \/ BuildRaises
    \/ SyncDryRun
    \/ \E ok \in BOOLEAN : GetCollections(ok)
    \/ \E ok \in BOOLEAN : CreateCollection(ok)
    \/ \E ok \in BOOLEAN : GetItemsAndDiff(ok)
    \/ \E ok \in BOOLEAN : SendBatch(ok)
    \/ \E answer \in {"not found", "rejected", "updated"} : UpdateMetadata(answer)
    \/ \E ok \in BOOLEAN : PosterAndArr(ok)
    \/ ReportSuccess
    \/ ReportError
    \/ RunEnd

Next ==
    \/ \E args \in SyncRunArgs : RunStart(args)
    \/ \E order \in CollectionOrder, mode \in SyncMode, its \in DesiredLists :
          BuildCollection(order, mode, its)
    \/ CollectionStep

Spec == Init /\ [][Next]_vars

\* The runs of the runner specification: every configured collection, or
\* those of one name; the server starts without BoxSets and every collection
\* is built in custom order from one candidate at most.
RunnerArgs ==
    {[libraries |-> {}, collections |-> c, scheduled |-> FALSE, posters_only |-> FALSE] :
        c \in {{}, {"N2"}}}

RunnerLists == InjectiveSeqs(Candidates, 1)

InitRunner == Init /\ boxsets = <<>>

NextRunner ==
    \/ \E args \in RunnerArgs : RunStart(args)
    \/ \E mode \in SyncMode, its \in RunnerLists :
          BuildCollection("custom", mode, its)
    \/ CollectionStep

SpecRunner == InitRunner /\ [][NextRunner]_vars

\* The scheduler specification: the scheduled runs of one process, as the
\* matcher sees them, and the server's libraries growing between them.
InitSched ==
    /\ boxsets = <<>>
    /\ dry_run = FALSE
    /\ library_items \in [Libraries -> SUBSET TmdbIds]
    /\ InitEngine

NextSched ==
    \/ \E startup_ok \in BOOLEAN, preloaded \in SUBSET Libraries :
          ScheduledRunStart(startup_ok, preloaded)
    \/ \E tmdb_id \in TmdbIds, library_id \in Libraries, load_ok \in BOOLEAN :
          FindInLibrary(tmdb_id, library_id, load_ok)
    \/ ScheduledRunEnd
    \/ \E tmdb_id \in TmdbIds, library_id \in Libraries :
          ServerAddsItem(tmdb_id, library_id)

SpecSched == InitSched /\ [][NextSched]_vars

\* The library-load specification: dry runs over every configured collection
\* in which build_collection loads the library of the collection it matches.
InitLoad == InitRunner /\ dry_run

NextLoad ==
    \/ RunStart(NoArgs)
    \/ \E load_ok \in BOOLEAN, mode \in SyncMode, its \in RunnerLists :
          BuildLoadsLibrary(load_ok, mode, its)
    \/ SyncDryRun
    \/ ReportSuccess
    \/ ReportError
    \/ RunEnd

SpecLoad == InitLoad /\ [][NextLoad]_vars

\* The matcher specification: while a run is on, the MediaMatcher's methods
\* are called in any order.  Item 1 is in both libraries and item NumItems
\* in the second one only.
InitMatcher ==
    /\ boxsets = <<>>
    /\ dry_run = FALSE
    /\ library_items = [l \in Libraries |-> IF l = "L1" THEN {1} ELSE {1, NumItems}]
    /\ InitEngine

NextMatcher ==
    \/ \E startup_ok \in BOOLEAN, preloaded \in SUBSET Libraries :
          ScheduledRunStart(startup_ok, preloaded)
    \/ \E library_id \in Libraries, load_ok \in BOOLEAN :
          EnsureLibraryLoaded(library_id, load_ok)
    \/ \E tmdb_id \in TmdbIds, library_id \in Libraries, load_ok \in BOOLEAN :
          FindInLibrary(tmdb_id, library_id, load_ok)
    \/ Reset
    \/ ScheduledRunEnd

SpecMatcher == InitMatcher /\ [][NextMatcher]_vars

\* The aggregator specification: _fetch_items for a collection that declares
\* up to two directives in either order; each provider returns up to
\* MaxPerSource items and at most one provider call fails.
FetchArgs(declared) ==
    { [fn |-> "_fetch_items", declared |-> declared, provider |-> p, fails |-> f] :
        p \in [DeclaredKinds -> UNION {[1..n -> MediaItems] : n \in 0..MaxPerSource}],
        f \in {{}} \cup {{kind} : kind \in DeclaredKinds} }

InitPure ==
    /\ boxsets = <<>>
    /\ dry_run = FALSE
    /\ library_items = [l \in Libraries |-> TmdbIds]
    /\ InitIdle

InitFetch ==
    /\ InitPure
    /\ \E declared \in InjectiveSeqs(DeclaredKinds, Cardinality(DeclaredKinds)) :
          fn_args \in FetchArgs(declared)

NextFetch == FetchItems \/ FetchRaised

SpecFetch == InitFetch /\ [][NextFetch]_vars

\* The ordering specification: _sort_items_for_collection for up to
\* MaxSortItems items under every order.
SortArgs(order) ==
    { [fn |-> "_sort_items_for_collection", order |-> order, items |-> its] :
        its \in UNION {[1..n -> SortItems(order)] : n \in 0..MaxSortItems} }

InitSort == InitPure /\ \E order \in CollectionOrder : fn_args \in SortArgs(order)

NextSort == SortItemsForCollection

SpecSort == InitSort /\ [][NextSort]_vars

\* The filter specification: _apply_filters for one item, alone or in front
\* of an item without any metadata, under filters that set numeric bounds
\* (with items whose numbers vary) or exclusion and inclusion sets (with
\* items whose country, language and genres vary).
NumericFilters ==
    { [NoFilter EXCEPT !.year_gte = yg, !.year_lte = yl, !.vote_average_gte = ag,
                       !.vote_average_lte = al, !.vote_count_gte = cg,
                       !.vote_count_lte = cl, !.critic_rating_gte = rg,
                       !.tmdb_vote_count_gte = tg] :
        yg \in {0, 2020}, yl \in {0, 2020}, ag \in {0, 6}, al \in {0, 6},
        cg \in {0, 100}, cl \in {0, 100}, rg \in {0, 6}, tg \in {0, 100} }

NumericItems ==
    { FilterItem(y, a, c, "", "", <<>>) :
        y \in {Absent, 2019, 2020, 2021}, a \in {Absent, 0, 5, 6, 7},
        c \in {Absent, 0, 100, 200} }

SetFilters ==
    { [NoFilter EXCEPT !.country_not = cn, !.origin_country_not = on,
                       !.original_language_not = ln, !.without_genres = wo,
                       !.with_genres = wi] :
        cn \in {{}, {"US"}}, on \in {{}, {"US"}}, ln \in {{}, {"ja"}},
        wo \in {{}, {1}, {1, 3}}, wi \in {{}, {2}} }

SetItems ==
    { FilterItem(2020, 6, 100, c, l, g) :
        c \in {"", "US", "FR"}, l \in {"", "ja", "en"},
        g \in {<<>>, <<1>>, <<2>>, <<1, 2>>, <<3>>, <<0 - 1>>} }

FilterLists(item) == {<<item>>, <<item, FilterItem(Absent, Absent, Absent, "", "", <<>>)>>}

FilterArgs(filter_set, item_set) ==
    { [fn |-> "_apply_filters", filters |-> filters, items |-> its, limit |-> limit] :
        filters \in filter_set, its \in UNION {FilterLists(item) : item \in item_set},
        limit \in 0..MaxLimit }

InitFilter ==
    /\ InitPure
    /\ \/ fn_args \in FilterArgs(NumericFilters, NumericItems)
       \/ fn_args \in FilterArgs(SetFilters, SetItems)
    /\ fn_args.limit = 0 \/ Len(fn_args.items) > fn_args.limit

NextFilter == ApplyFilters

SpecFilter == InitFilter /\ [][NextFilter]_vars

\* The schedule specification: the loop of Runner.run reaches a collection of
\* any cadence on any of three weekdays and three days of the month, in a
\* manual or scheduled run, with or without ignore_schedule.
ScheduleArgs ==
    { [fn |-> "_should_run_today", collections |-> c, scheduled |-> sc,
       ignore_schedule |-> ig,
       schedule |-> [schedule_type |-> ty, day_of_week |-> dw, day_of_month |-> dm],
       today |-> [weekday |-> wd, day |-> d]] :
        c \in {{}, {"N1"}, {"N2"}}, sc \in BOOLEAN, ig \in BOOLEAN, ty \in ScheduleType,
        dw \in {"", "sunday", "monday", "Monday"}, dm \in {0, 1, 15},
        wd \in {"Sunday", "Monday", "Tuesday"}, d \in {1, 2, 15} }

InitSchedule == InitPure /\ fn_args \in ScheduleArgs

NextSchedule == CheckSchedule

SpecSchedule == InitSchedule /\ [][NextSchedule]_vars

\* The client specification: add_to_collection and remove_from_collection
\* are called with any list of up to MaxIds ids (the empty one included) on a
\* BoxSet with any members, and the server answers each batch as it likes.
InitClient ==
    /\ \E members \in InitMembers : boxsets = <<[Name |-> "N1", Items |-> members]>>
    /\ dry_run = FALSE
    /\ library_items = [l \in Libraries |-> TmdbIds]
    /\ InitIdle
    /\ \E fn \in {"add", "remove"}, n \in 0..MaxIds :
          fn_args \in {[fn |-> fn, item_ids |-> ids] : ids \in [1..n -> 1..MaxIds]}

NextClient ==
    \/ \E ok \in BOOLEAN : AddToCollection(ok)
    \/ \E ok \in BOOLEAN : RemoveFromCollection(ok)

SpecClient == InitClient /\ [][NextClient]_vars

\* The pagination specification: _fetch_paginated_results with any limit on
\* an endpoint of up to MaxPages pages of up to PageSize results each (a page
\* can be empty), the server answering each request or failing it.
InitPages ==
    /\ InitPure
    /\ \E total_pages \in 1..MaxPages :
          fn_args \in {[fn |-> "_fetch_paginated_results", limit |-> limit, sizes |-> sizes] :
                          limit \in 0..(MaxPages * PageSize + 1),
                          sizes \in [1..total_pages -> 0..PageSize]}

NextPages == \E ok \in BOOLEAN : FetchPage(ok)

SpecPages == InitPages /\ [][NextPages]_vars

\* The library-page specification: get_library_items for a library of up to
\* MaxLibrary items, some without TMDb id, on a server that caps its
\* responses below, at or above page_size, with any limit and start index.
InitLibrary ==
    /\ InitPure
    /\ \E total \in 0..MaxLibrary :
          fn_args \in {[fn |-> "get_library_items", total |-> total, with_tmdb |-> w,
                        cap |-> cap, limit |-> limit, start_index |-> start] :
                          w \in SUBSET (1..total), cap \in 1..(page_size + 1),
                          limit \in 0..(MaxLibrary + 1), start \in 0..1}

NextLibrary == \E ok \in BOOLEAN : GetLibraryItems(ok)

SpecLibrary == InitLibrary /\ [][NextLibrary]_vars

\* The match specification: the title fallback compares a candidate without
\* TMDb id with a library item; ids of the other namespaces, titles and
\* years vary on both sides.  The titles are "The Matrix", "matrix",
\* "Matrix!" and "Heat".
MatchTitles ==
    { <<"T", "h", "e", " ", "M", "a", "t", "r", "i", "x">>,
      <<"m", "a", "t", "r", "i", "x">>,
      <<"M", "a", "t", "r", "i", "x", "!">>,
      <<"H", "e", "a", "t">> }

MatchItems(tmdb_ids) ==
    { [tmdb_id |-> tmdb_id, imdb_id |-> imdb_id, tvdb_id |-> tvdb_id, title |-> title,
       year |-> year] :
        tmdb_id \in tmdb_ids, imdb_id \in {"", "tt1", "tt2"}, tvdb_id \in {0, 5, 6},
        title \in MatchTitles, year \in {0, 1999, 2000, 2005} }

InitMatch ==
    /\ InitPure
    /\ \E item \in MatchItems({0}) :
          fn_args \in {[fn |-> "_is_match", item |-> item, lib_item |-> lib_item] :
                          lib_item \in MatchItems({0, 1})}

NextMatch == IsMatch

SpecMatch == InitMatch /\ [][NextMatch]_vars

\* The discover specification: _fetch_tmdb_discover for a movie or series
\* directive with or without a limit, for a collection without filters or
\* with up to MaxExcluded excluded languages, origin countries and countries.
ExcludedList(n) == [i \in 1..n |-> i]

InitDiscover ==
    /\ InitPure
    /\ \E limit \in {Absent, 0, 1, 3, 20}, media_type \in {"movie", "series"} :
          \/ fn_args = [fn |-> "_fetch_tmdb_discover", media_type |-> media_type,
                        discover |-> [limit |-> limit], filters |-> <<>>]
          \/ \E l, o, c \in 0..MaxExcluded :
                fn_args = [fn |-> "_fetch_tmdb_discover", media_type |-> media_type,
                           discover |-> [limit |-> limit],
                           filters |-> [original_language_not |-> ExcludedList(l),
                                        origin_country_not |-> ExcludedList(o),
                                        country_not |-> ExcludedList(c)]]

NextDiscover == FetchTmdbDiscover

SpecDiscover == InitDiscover /\ [][NextDiscover]_vars

\* The schedule specification: one "jfc schedule" process for the collection
\* N1, kept in custom order in either sync mode, with or without run_on_start
\* and a posters cron; the server starts without BoxSets or with the BoxSet
\* of the collection; each job runs once.
JobLists == InjectiveSeqs(TmdbIds, MaxDesired)

InitJobs ==
    /\ boxsets \in {<<>>} \cup {<<[Name |-> "N1", Items |-> m]>> : m \in InitMembers}
    /\ dry_run = FALSE
    /\ library_items = [l \in Libraries |-> TmdbIds]
    /\ InitIdle
    /\ \E run_on_start \in BOOLEAN, posters_cron \in BOOLEAN, sync_mode \in SyncMode :
          fn_args = [fn |-> "schedule", name |-> "N1", collection_order |-> "custom",
                     sync_mode |-> sync_mode, run_on_start |-> run_on_start,
                     posters_cron |-> posters_cron]

NextJobs ==
    \/ \E its \in JobLists : RunOnStart(its)
    \/ \E job \in Jobs, its \in JobLists : JobFires(job, its)
    \/ \E job \in Jobs, ok \in BOOLEAN : TaskStep(job, ok)

SpecJobs == InitJobs /\ [][NextJobs]_vars

\* ------------------------------------------------------------- properties
\* A sync that reads and writes the membership: neither dry-run nor
\* posters-only.
FullSync == ~dry_run /\ ~run_args.posters_only

\* The members of the BoxSet the sync in work targets.
Members == Range(boxsets[jellyfin_id].Items)

\* The server ids of the desired items that were matched.
DesiredIds(its) == {CollectionItem(its[k]).jellyfin_id : k \in 1..Len(its)} \ {0}

\* The calls of the current sync with one of the given operations.
Issued(ops) == {k \in 1..Len(calls) : calls[k].op \in ops}

\* s is t with some elements left out, the others in the order of t.
IsSubsequence(s, t) ==
    \E f \in [1..Len(s) -> 1..Len(t)] :
        /\ \A a, b \in 1..Len(s) : a < b => f[a] < f[b]
        /\ \A a \in 1..Len(s) : s[a] = t[f[a]]

\* The pcs at which the diff of the sync in work has been computed.
AfterDiff == {"apply", "metadata", "poster", "returned"}

\* C1: when a SYNC-mode sync (not dry-run, not posters-only) has returned,
\* the members of the target collection are exactly the server ids of the
\* matched desired items, whatever the ordering mode and the members before
\* (an empty desired list empties the collection).
C1_SyncMembersAreDesired ==
    (pc = "returned" /\ FullSync /\ config.sync_mode = "sync")
        => Members = DesiredIds(items)

\* C1 case: a SYNC sync that had to add and to remove has returned.
C1_Witness ==
    /\ pc = "returned" /\ FullSync /\ config.sync_mode = "sync"
    /\ to_add_list # <<>> /\ to_remove_list # <<>>

\* C1 case: a SYNC sync with nothing desired has emptied a collection.
C1_WitnessEmpty ==
    /\ pc = "returned" /\ FullSync /\ config.sync_mode = "sync"
    /\ DesiredIds(items) = {} /\ current_ids # {} /\ Members = {}

\* C2: when an APPEND-mode sync has returned, every id that was a member
\* before is still a member and no remove call was issued, whatever the
\* ordering mode.
C2_AppendKeepsMembers ==
    (pc = "returned" /\ FullSync /\ config.sync_mode = "append")
        => /\ current_ids \subseteq Members
           /\ Issued({"remove"}) = {}

\* C2 in the ordering mode in which it holds: an APPEND sync with custom
\* order keeps every member and issues no remove call.
C2_AppendCustomKeepsMembers ==
    (pc = "returned" /\ FullSync /\ config.sync_mode = "append"
        /\ config.collection_order = "custom")
        => /\ current_ids \subseteq Members
           /\ Issued({"remove"}) = {}

\* C3: a SYNC sync that repeats the sync before it (same collection, same
\* settings, same desired items, server untouched in between) computes an
\* empty toAdd and toRemove, issues no add or remove call and returns (0, 0).
C3_SecondSyncIsNoOp ==
    (repeated /\ FullSync /\ pc \in AfterDiff)
        => /\ to_add_list = <<>> /\ to_remove_list = <<>>
           /\ Issued({"add", "remove"}) = {}
           /\ (pc = "returned" => outcome.added = 0 /\ outcome.removed = 0)

\* C3 where the server holds one collection of the name at most: there the
\* repeated sync is a no-op.
C3_SecondSyncIsNoOpUniqueName ==
    (repeated /\ FullSync /\ pc \in AfterDiff
        /\ Cardinality({k \in 1..Len(boxsets) : boxsets[k].Name = config.name}) <= 1)
        => /\ to_add_list = <<>> /\ to_remove_list = <<>>
           /\ Issued({"add", "remove"}) = {}
           /\ (pc = "returned" => outcome.added = 0 /\ outcome.removed = 0)

\* C4: toAdd is the desired ids that are not members, in the order of the
\* desired (sorted) list; in SYNC mode toRemove is the members that are not
\* desired; the counts returned are the lengths of the two.
C4_DiffIsSetDifference ==
    (FullSync /\ pc \in AfterDiff)
        => /\ Range(target_ids_list) = DesiredIds(items)
           /\ Len(target_ids_list) = Cardinality(DesiredIds(items))
           /\ (config.collection_order = "custom"
                 => IsSubsequence([k \in 1..Len(target_ids_list) |->
                                      CHOOSE c \in Range(items) :
                                         CollectionItem(c).jellyfin_id = target_ids_list[k]],
                                  items))
           /\ Range(to_add_list) = DesiredIds(items) \ current_ids
           /\ IsSubsequence(to_add_list, target_ids_list)
           /\ (Issued({"add", "remove"}) = {} => current_ids = Members)
           /\ (config.sync_mode = "sync"
                 => /\ Range(to_remove_list) = current_ids \ DesiredIds(items)
                    /\ Len(to_remove_list) = Cardinality(current_ids \ DesiredIds(items)))
           /\ (pc = "returned"
                 => /\ outcome.added = Len(to_add_list)
                    /\ outcome.removed = Len(to_remove_list))

\* C4 case: two ids were added in an order that is not the ascending one.
C4_Witness ==
    /\ pc = "returned" /\ FullSync
    /\ Len(to_add_list) = 2 /\ to_add_list[1] > to_add_list[2]
    /\ outcome.added = 2

\* C4 case: a SYNC sync that added one id and removed another.
C4_WitnessRemove ==
    /\ pc = "returned" /\ FullSync /\ config.sync_mode = "sync"
    /\ outcome.added = 1 /\ outcome.removed = 1

\* The case of C5: the collection existed, nothing is to add or to remove,
\* and the order is custom or the mode APPEND.
NothingToDo ==
    /\ FullSync /\ pc \in AfterDiff
    /\ existing # 0
    /\ to_add_list = <<>> /\ to_remove_list = <<>>
    /\ (config.collection_order = "custom" \/ config.sync_mode = "append")

\* C5 as stated: with nothing to add or to remove for an existing collection
\* (custom order or APPEND mode) the sync issues no mutating call at all.
C5_NoMutatingCall == NothingToDo => calls = <<>>

\* C5, amended: in that case the sync issues no add, remove, clear or create
\* call; the one write it still issues is the metadata update.
C5_NoMembershipCall ==
    NothingToDo => \A k \in 1..Len(calls) : calls[k].op = "metadata"

\* C5 case: such a sync of a collection with members has returned, its
\* metadata update sent.
C5_Witness ==
    /\ NothingToDo /\ pc = "returned" /\ current_ids # {}
    /\ Issued({"metadata"}) # {}

\* C6: a membership batch that is not answered with success is the last call
\* of its sync: the sync has raised, no later batch and no metadata update is
\* issued, and no counts are returned.
C6_FailedBatchRaises ==
    \A k \in 1..Len(calls) :
        (calls[k].op \in {"add", "remove"} /\ ~calls[k].ok)
            => /\ k = Len(calls)
               /\ pc = "raised"
               /\ outcome.kind = "raised"
               /\ outcome.added = 0 /\ outcome.removed = 0
               /\ metadata_result = "not called"

\* C6 case: the second batch of a sync failed after the first was applied.
C6_Witness ==
    /\ pc = "raised"
    /\ Len(calls) >= 2
    /\ calls[Len(calls)].op \in {"add", "remove"} /\ ~calls[Len(calls)].ok
    /\ calls[1].ok

\* C8: a metadata update that fails is not fatal: sync_collection goes on
\* as after a successful one, returns the counts of its changes, and the
\* collection is reported with success = True.
C8_MetadataFailureNotFatal ==
    [][ /\ (pc = "metadata" => pc' = "poster" /\ outcome' = outcome)
        /\ (pc = "poster" /\ pc' = "returned" /\ metadata_result = "False"
              => outcome' = Returned(Len(to_add_list), Len(to_remove_list)))
        /\ (pc = "returned" /\ metadata_result = "False"
              => /\ Len(run_report') = Len(run_report) + 1
                 /\ run_report'[Len(run_report')].success
                 /\ run_report'[Len(run_report')].error_message = ""
                 /\ run_report'[Len(run_report')].items_added_to_collection
                       = Len(to_add_list)
                 /\ run_report'[Len(run_report')].items_removed_from_collection
                       = Len(to_remove_list)) ]_vars

\* C8 case: a sync whose changes were applied and whose metadata update
\* failed has returned its counts.
C8_Witness ==
    /\ pc = "returned" /\ FullSync
    /\ metadata_result = "False"
    /\ \E k \in Issued({"add", "remove"}) : calls[k].ok
    /\ outcome.added + outcome.removed > 0

\* The BoxSets of the server that carry the name of the collection in work.
SameName == {k \in 1..Len(boxsets) : boxsets[k].Name = config.name}

\* C9: a sync targets one collection: of the BoxSets with exactly the name,
\* one with the largest member count, or a newly created one when there is
\* none; it creates only when no BoxSet has the name, never more than one
\* per name over all syncs, and every add and remove goes to the target.
C9_OneTarget ==
    /\ \A n \in Names : created[n] <= 1
    /\ pc = "create" => SameName = {}
    /\ jellyfin_id # 0 => jellyfin_id \in SameName
    /\ (existing # 0 /\ \A k \in Issued({"add", "remove"}) : ~calls[k].ok)
          => /\ jellyfin_id = existing
             /\ \A k \in SameName :
                   Len(boxsets[k].Items) <= Len(boxsets[existing].Items)
    /\ (existing = 0 /\ jellyfin_id # 0)
          => /\ SameName = {jellyfin_id}
             /\ calls # <<>> /\ calls[1] = Call("create", jellyfin_id, <<>>, TRUE)
    /\ Issued({"create"}) # {} => existing = 0 /\ Issued({"create"}) = {1}
    /\ \A k \in Issued({"add", "remove", "metadata"}) : calls[k].collection = jellyfin_id

\* C9 case: of two BoxSets of the name the sync took the larger and added
\* to it.
C9_Witness ==
    /\ pc = "returned" /\ jellyfin_id # 0
    /\ Cardinality(SameName) = 2
    /\ \E k \in SameName : Len(boxsets[k].Items) < Len(boxsets[jellyfin_id].Items)
    /\ \E k \in Issued({"add"}) : calls[k].ok

\* C9 case: a sync created its collection and filled it.
C9_WitnessCreated ==
    /\ pc = "returned" /\ jellyfin_id # 0
    /\ created[config.name] = 1 /\ existing = 0
    /\ Members # {}

\* The collections the loops of the current run process, in order.
Expected ==
    LET Chosen(c) == /\ run_args.libraries = {} \/ c.library \in run_args.libraries
                     /\ run_args.collections = {} \/ c.name \in run_args.collections
    IN  SelectSeq(AllCollections, Chosen)

\* The collections the run report has an entry for, in order.
Reported == [k \in 1..Len(run_report) |->
                [library |-> run_report[k].library, name |-> run_report[k].name]]

\* The collections of the queue the loop will process.
Pending ==
    LET Chosen(c) == run_args.collections = {} \/ c.name \in run_args.collections
    IN  SelectSeq(queue, Chosen)

\* C7: a failure is confined to its collection.  The entry filed for a
\* build or sync that raised has success = False, the message of the error
\* and zero counts; an entry has success = True only when sync_collection
\* returned; and whatever happened to the collections before, every
\* collection of the run is processed and gets its entry, in order.
C7_FailureConfined ==
    /\ [](pc = "loop"
            => Reported \o Pending = Expected)
    /\ [](pc \notin {"idle", "loop"}
            => Reported \o <<[library |-> config.library, name |-> config.name]>>
                  \o Pending = Expected)
    /\ [](\A k \in 1..Len(run_report) :
            ~run_report[k].success
               => /\ run_report[k].error_message # ""
                  /\ run_report[k].items_added_to_collection = 0
                  /\ run_report[k].items_removed_from_collection = 0)
    /\ [][Len(run_report') = Len(run_report) + 1
            => LET entry == run_report'[Len(run_report')]
               IN  /\ entry.success <=> (pc = "returned" /\ outcome.kind = "returned")
                   /\ ~entry.success
                        => /\ pc = "raised" /\ outcome.kind = "raised"
                           /\ entry.error_message = outcome.error
                   /\ SubSeq(run_report', 1, Len(run_report)) = run_report
                   /\ boxsets' = boxsets]_vars

\* C7 case: the first collection of a run failed in the middle of its
\* membership calls, the two after it were synced and changed.
C7_Witness ==
    /\ pc = "loop" /\ queue = <<>>
    /\ Len(run_report) = 3
    /\ ~run_report[1].success
    /\ run_report[1].error_message = "Failed to add items to collection"
    /\ run_report[2].success /\ run_report[2].items_added_to_collection = 1
    /\ run_report[3].success /\ run_report[3].items_removed_from_collection = 1

\* C10: every scheduled run resets the matcher before its first lookup, so
\* that the first lookup of a scheduled run starts from an empty cache and
\* a library loaded anew: it finds the item when the library holds it, an
\* item added since the run before included.
C10_ScheduledRunFindsAddedItems ==
    \A l \in lookups : (l.first /\ l.on_server) => l.found

\* C10 case: a scheduled run after the first looked up an item that the
\* server holds and the matcher's index of the library does not.
C10_Case ==
    /\ pc = "matching" /\ _startup_done
    /\ \E l \in lookups :
          /\ l.first /\ l.on_server
          /\ l.library \in _library_loaded
          /\ l.tmdb_id \notin _library_items[l.library]

\* A step in which the MediaMatcher was called with the given method.
MatcherStep(op) == last_call' # last_call /\ last_call'.op = op

\* C11: _ensure_library_loaded(L), called directly or by find_in_library,
\* issues get_library_items iff L carries no loaded mark; a call for a
\* loaded library leaves index, marks and cache as they are; a fetch that
\* succeeds marks L and indexes the library's items; reset() clears the
\* cache, every mark and every index, and the _ensure_library_loaded that
\* follows it fetches.
C11_EnsureLoadedFetchesOnce ==
    [][ /\ (MatcherStep("ensure") \/ MatcherStep("find")) =>
             /\ last_call'.fetched <=> last_call'.library \notin _library_loaded
             /\ (last_call'.fetched /\ ~last_call'.raised) =>
                   /\ last_call'.library \in _library_loaded'
                   /\ _library_items'[last_call'.library] =
                         library_items[last_call'.library]
        /\ (MatcherStep("ensure") /\ last_call'.library \in _library_loaded) =>
             UNCHANGED <<_library_items, _library_loaded, _cache>>
        /\ MatcherStep("reset") =>
             /\ _cache' = <<>>
             /\ _library_loaded' = {}
             /\ \A l \in Libraries : _library_items'[l] = {}
        /\ (last_call.op = "reset" /\ MatcherStep("ensure")) => last_call'.fetched
      ]_vars

\* C11 case: after lookups of the run filled the cache a reset emptied it,
\* and the _ensure_library_loaded that came next fetched and marked the
\* library.
C11_Witness ==
    /\ last_call.op = "ensure" /\ last_call.fetched /\ ~last_call.raised
    /\ lookups # {} /\ _cache = <<>>
    /\ last_call.library \in _library_loaded

\* C11 case: _ensure_library_loaded was called for a library that carried
\* the mark.
C11_WitnessLoaded ==
    last_call.op = "ensure" /\ last_call.loaded /\ ~last_call.fetched

\* C13: find_in_library for a candidate with a TMDb id, the library being
\* loaded.  The first call for an id (no cache entry yet) that is in the
\* library's index returns that library's item; a call for an id with a
\* cache entry returns the cached result without consulting the index and,
\* the library being loaded, without a server call; the first call for an
\* id the index does not hold returns None and caches None.  Hence the call
\* that repeats the one before it (same id, same library) returns the same
\* result with neither index lookup nor fetch.
C13_FindUsesCache ==
    [][ (MatcherStep("find") /\ ~last_call'.raised) =>
          LET id == last_call'.tmdb_id
              L  == last_call'.library
          IN  /\ (~last_call'.cached /\ last_call'.in_index) =>
                    last_call'.result = LibraryItem(L, id)
              /\ last_call'.cached =>
                    /\ last_call'.result = _cache[id]
                    /\ ~last_call'.index_lookup
                    /\ last_call'.loaded => ~last_call'.fetched
              /\ (~last_call'.cached /\ ~last_call'.in_index) =>
                    /\ last_call'.result = None
                    /\ id \in DOMAIN _cache'
                    /\ _cache'[id] = None
              /\ (last_call.op = "find" /\ ~last_call.raised
                    /\ last_call.tmdb_id = id /\ last_call.library = L) =>
                    /\ last_call'.result = last_call.result
                    /\ ~last_call'.index_lookup
                    /\ ~last_call'.fetched
      ]_vars

\* C13 case: the lookup of an id the library holds was repeated and answered
\* from the cache with the library's item.
C13_Witness ==
    /\ last_call.op = "find" /\ last_call.cached /\ ~last_call.index_lookup
    /\ last_call.result = LibraryItem(last_call.library, last_call.tmdb_id)

\* C13 case: the lookup of an id the library does not hold was repeated and
\* answered None from the cache.
C13_WitnessMiss ==
    /\ last_call.op = "find" /\ last_call.cached /\ ~last_call.raised
    /\ last_call.result = None
    /\ last_call.tmdb_id \notin library_items[last_call.library]

\* The error entries of the run report that a failed library load left.
LoadFailures == {i \in 1..Len(run_report) : run_report[i].error_message = "library load failed"}

\* C12: once loading a library has failed in a run, no collection of that
\* library is built or synced in the rest of the run: the run report holds
\* no success entry of the library after the error entry, and the collection
\* in work is not one of that library.
C12_LoadFailureAbortsLibrary ==
    \A i \in LoadFailures :
        /\ \A j \in (i + 1)..Len(run_report) :
              run_report[j].library = run_report[i].library => ~run_report[j].success
        /\ pc \in {"sync", "returned"} => config.library # run_report[i].library

\* _fetch_items has returned its list.
Fetched == fn_result.called /\ ~fn_result.raised

\* The positions of a merged list that hold the first item of a dedupe key.
FirstOccurrences(all_items) ==
    {i \in 1..Len(all_items) :
        /\ DedupeKey(all_items[i]).ns # ""
        /\ \A j \in 1..(i - 1) : DedupeKey(all_items[j]) # DedupeKey(all_items[i])}

\* C14: the deduplicated list holds, in merged order, exactly the items at
\* the first occurrence of each dedupe key of the merged list (so N entries
\* of one id leave one entry, at the place of the first), no key twice, and
\* deduplicating it again returns it unchanged.
C14_DedupeKeepsFirst ==
    Fetched =>
        LET all_items == fn_result.all_items
            items_out == fn_result.items
            first     == FirstOccurrences(all_items)
        IN  /\ Len(items_out) = Cardinality(first)
            /\ \E f \in [1..Len(items_out) -> first] :
                  /\ \A a, b \in 1..Len(items_out) : a < b => f[a] < f[b]
                  /\ \A a \in 1..Len(items_out) : items_out[a] = all_items[f[a]]
            /\ \A a, b \in 1..Len(items_out) :
                  DedupeKey(items_out[a]) = DedupeKey(items_out[b]) => a = b
            /\ Dedupe(items_out) = items_out

\* C14 case: a merged list of four entries in which one key comes first,
\* another key second and the first key again afterwards was deduplicated
\* to the two first occurrences.
C14_Witness ==
    /\ Fetched
    /\ Len(fn_result.all_items) = 4
    /\ DedupeKey(fn_result.all_items[1]) = DedupeKey(fn_result.all_items[3])
    /\ DedupeKey(fn_result.all_items[1]) = DedupeKey(fn_result.all_items[4])
    /\ DedupeKey(fn_result.all_items[1]) # DedupeKey(fn_result.all_items[2])
    /\ fn_result.all_items[1] # fn_result.all_items[3]
    /\ fn_result.items = <<fn_result.all_items[1], fn_result.all_items[2]>>

\* The dedupe keys of the items the provider of a directive returned.
KeysOf(kind) ==
    {DedupeKey(fn_args.provider[kind][i]) : i \in 1..Len(fn_args.provider[kind])}
        \ {DedupeKey(MediaItem(0, "", <<>>, 0))}

\* The returned list follows the given order of the declared directives: of
\* two directives, the kept items of the earlier one come before the items
\* that only the later one contributed, and the kept items of one directive
\* are in the order its provider returned them.
FollowsOrder(Earlier(_, _)) ==
    /\ \A k1, k2 \in Range(fn_args.declared) :
          Earlier(k1, k2) =>
             \A p, q \in 1..Len(fn_result.items) :
                 (/\ DedupeKey(fn_result.items[p]) \in KeysOf(k1)
                  /\ DedupeKey(fn_result.items[q]) \in KeysOf(k2) \ KeysOf(k1))
                     => p < q
    /\ \A k \in Range(fn_args.declared) :
          IsSubsequence(
              SelectSeq(fn_result.items,
                        LAMBDA it : /\ DedupeKey(it) \in KeysOf(k)
                                    /\ \A k1 \in Range(fn_args.declared) :
                                          Earlier(k1, k) => DedupeKey(it) \notin KeysOf(k1)),
              fn_args.provider[k])

\* The place of a directive in the collection's declaration and in the
\* order of _fetch_items.
DeclaredAt(kind) == CHOOSE i \in 1..Len(fn_args.declared) : fn_args.declared[i] = kind

SourceRank(kind) == CHOOSE i \in 1..Len(SourceOrder) : SourceOrder[i] = kind

\* C17: _fetch_items concatenates the results of the directives in the order
\* in which the collection declares them, each in its own order.
C17_DeclarationOrder ==
    Fetched => FollowsOrder(LAMBDA k1, k2 : DeclaredAt(k1) < DeclaredAt(k2))

\* C17 with the order that the code follows: the results are concatenated in
\* the fixed order in which _fetch_items tests the directives (TMDb trending
\* weekly, trending daily, popular, discover, list, IMDb chart, list, Radarr
\* tags, Sonarr tags, Trakt trending, popular, chart), however the
\* collection declares them, each in its own order.
C17_SourceOrder ==
    Fetched => FollowsOrder(LAMBDA k1, k2 : SourceRank(k1) < SourceRank(k2))

\* C17 case: the collection declares tmdb_list before tmdb_popular, both
\* providers returned items of different keys, and the items of tmdb_popular
\* come first in the result.
C17_Witness ==
    /\ Fetched
    /\ fn_args.declared = <<"tmdb_list", "tmdb_popular">>
    /\ KeysOf("tmdb_list") # {} /\ KeysOf("tmdb_popular") # {}
    /\ KeysOf("tmdb_list") \cap KeysOf("tmdb_popular") = {}
    /\ DedupeKey(fn_result.items[1]) \in KeysOf("tmdb_popular")
    /\ Len(fn_result.items) >= 3

\* C18: when the provider call of a declared directive fails, _fetch_items
\* still returns (the items of the other directives) and the collection gets
\* no error report.
C18_FailedSourceSkipped ==
    (fn_result.called /\ fn_args.fails \cap Range(fn_args.declared) # {})
        => /\ ~fn_result.raised
           /\ \A i \in 1..Len(run_report) : run_report[i].success

\* The date an item counts with: its exact date, else Jan 1 of its year.
PremiereOf(x) ==
    IF x.premiere_date # 0 THEN x.premiere_date
    ELSE IF x.year # 0 THEN DateOf(x.year) ELSE DateOf(1)

AddedOf(x) == IF x.date_created # 0 THEN x.date_created ELSE DateOf(1)

NameOf(x) == LowerName(IF x.sort_name # 0 THEN x.sort_name ELSE x.title)

\* x has to come before y in the desired order of the mode: the first
\* criterion in its direction, and the title ascending between equals.
ComesBefore(order, x, y) ==
    LET TitleBreaks(equal) == equal /\ x.title < y.title
    IN  CASE order = "PremiereDate" ->
               \/ PremiereOf(x) > PremiereOf(y)
               \/ TitleBreaks(PremiereOf(x) = PremiereOf(y))
          [] order = "DateCreated" ->
               \/ AddedOf(x) > AddedOf(y)
               \/ TitleBreaks(AddedOf(x) = AddedOf(y))
          [] order = "CommunityRating" ->
               \/ x.community_rating > y.community_rating
               \/ TitleBreaks(x.community_rating = y.community_rating)
          [] order = "CriticRating" ->
               \/ x.critic_rating > y.critic_rating
               \/ TitleBreaks(x.critic_rating = y.critic_rating)
          [] order = "SortName" ->
               \/ NameOf(x) < NameOf(y)
               \/ TitleBreaks(NameOf(x) = NameOf(y))
          [] OTHER -> FALSE

\* t holds the elements of s, each as often as s.
IsPermutation(s, t) ==
    /\ Len(s) = Len(t)
    /\ \E p \in ListsOfSet(1..Len(s)) : \A k \in 1..Len(s) : t[k] = s[p[k]]

\* C20: the sorted list is a rearrangement of the items; custom leaves them
\* as they are; under premiere-date (newest first, Jan 1 of the year without
\* exact date), community or critic rating (highest first), date-added
\* (newest first) and sort-name (ascending), no item stands behind one it
\* has to come before, the title ascending deciding between equals.
C20_DesiredOrder ==
    (fn_result.called) =>
        LET sorted_items == fn_result.sorted_items
        IN  /\ IsPermutation(fn_args.items, sorted_items)
            /\ fn_args.order = "custom" => sorted_items = fn_args.items
            /\ \A p, q \in 1..Len(sorted_items) :
                  p < q => ~ComesBefore(fn_args.order, sorted_items[q], sorted_items[p])

\* C20 without the tiebreak, as the code sorts: the first criterion of the
\* mode is in its direction.
C20_FirstCriterionOrder ==
    (fn_result.called) =>
        LET sorted_items == fn_result.sorted_items
            First(x) == SortKeyOf(fn_args.order, x)[1]
        IN  /\ IsPermutation(fn_args.items, sorted_items)
            /\ fn_args.order = "custom" => sorted_items = fn_args.items
            /\ \A p, q \in 1..Len(sorted_items) :
                  p < q =>
                     IF fn_args.order \in {"PremiereDate", "DateCreated"}
                     THEN First(sorted_items[p]) >= First(sorted_items[q])
                     ELSE fn_args.order # "Random" =>
                             First(sorted_items[p]) <= First(sorted_items[q])

\* C20 case: items of the premiere years 2020, 2022, 2021 were sorted to
\* 2022, 2021, 2020.
C20_Example ==
    /\ fn_result.called /\ fn_args.order = "PremiereDate"
    /\ Len(fn_args.items) = 3
    /\ [k \in 1..3 |-> fn_args.items[k].year] = <<2020, 2022, 2021>>
    /\ \A k \in 1..3 : fn_args.items[k].premiere_date = 0
    /\ [k \in 1..3 |-> fn_result.sorted_items[k].year] = <<2022, 2021, 2020>>

\* The numeric filters of _apply_filters and the set-exclusion filters.
NumericBranches == {"year_gte", "year_lte", "vote_average_gte", "tmdb_vote_count_gte"}

ExclusionBranches ==
    {"country_not", "origin_country_not", "original_language_not", "without_genres"}

\* A present value lies within the bound; an unset bound (0) holds for all.
AtLeast(value, bound) == bound = 0 \/ value = Absent \/ value >= bound

AtMost(value, bound) == bound = 0 \/ value = Absent \/ value <= bound

\* The item is within every configured bound on year, vote average and vote
\* count, bounds included; an absent value is within every bound.
WithinBounds(filters, item) ==
    /\ AtLeast(item.year, filters.year_gte) /\ AtMost(item.year, filters.year_lte)
    /\ AtLeast(item.vote_average, filters.vote_average_gte)
    /\ AtMost(item.vote_average, filters.vote_average_lte)
    /\ AtLeast(item.vote_count, filters.tmdb_vote_count_gte)
    /\ AtLeast(item.vote_count, filters.vote_count_gte)
    /\ AtMost(item.vote_count, filters.vote_count_lte)

\* C15: with bounds on year, vote average and vote count configured (and no
\* critic rating bound), an item is dropped by the numeric filters iff one of
\* its present values lies outside a configured bound: a value equal to the
\* bound or absent never drops it, a present value below a lower or above an
\* upper bound always does.
C15_InclusiveBounds ==
    (fn_result.called /\ fn_args.filters.critic_rating_gte = 0) =>
        \A k \in 1..Len(fn_args.items) :
            /\ WithinBounds(fn_args.filters, fn_args.items[k])
                  => fn_result.dropped_by[k] \notin NumericBranches
            /\ ~WithinBounds(fn_args.filters, fn_args.items[k])
                  => fn_result.dropped_by[k] # ""

\* C15 for the bounds the code applies (year both ways, vote average and
\* TMDb vote count from below) and values other than 0: there the bounds are
\* inclusive and an item is dropped iff a present value lies outside.
C15_AppliedBoundsNonZero ==
    (fn_result.called /\ fn_args.filters.critic_rating_gte = 0) =>
        \A k \in 1..Len(fn_args.items) :
            LET item == fn_args.items[k]
                applied == [fn_args.filters EXCEPT !.vote_average_lte = 0,
                                                   !.vote_count_gte = 0,
                                                   !.vote_count_lte = 0]
            IN  (item.vote_average # 0 /\ item.vote_count # 0) =>
                   (WithinBounds(applied, item)
                       <=> fn_result.dropped_by[k] \notin NumericBranches)

\* The item has a value in one of the exclusion sets.
Excluded(filters, item) ==
    \/ item.original_country \in filters.country_not
    \/ item.original_country \in filters.origin_country_not
    \/ item.original_language \in filters.original_language_not
    \/ GenreIds(item) \cap filters.without_genres # {}

\* C16: an item is dropped by a set-exclusion filter only if one of its
\* values is in an exclusion set, and an item with such a value is dropped;
\* an item that passes a configured genre-inclusion filter has a genre id in
\* the inclusion set.
C16_ExclusionAndInclusion ==
    fn_result.called =>
        \A k \in 1..Len(fn_args.items) :
            LET item == fn_args.items[k]
            IN  /\ fn_result.dropped_by[k] \in ExclusionBranches
                      => Excluded(fn_args.filters, item)
                /\ Excluded(fn_args.filters, item) => fn_result.dropped_by[k] # ""
                /\ (fn_args.filters.with_genres # {} /\ fn_result.dropped_by[k] = "")
                      => GenreIds(item) \cap fn_args.filters.with_genres # {}

\* C16 with the absent field tolerated: as before, but an item without any
\* genre passes the genre-inclusion filter; an item with genres passes it
\* iff one of its genre ids is in the inclusion set.
C16_ExclusionAndInclusionOfGenres ==
    fn_result.called =>
        \A k \in 1..Len(fn_args.items) :
            LET item == fn_args.items[k]
            IN  /\ fn_result.dropped_by[k] \in ExclusionBranches
                      => Excluded(fn_args.filters, item)
                /\ Excluded(fn_args.filters, item) => fn_result.dropped_by[k] # ""
                /\ (fn_args.filters.with_genres # {} /\ fn_result.dropped_by[k] = "")
                      => \/ item.genres = <<>>
                         \/ GenreIds(item) \cap fn_args.filters.with_genres # {}
                /\ fn_result.dropped_by[k] = "with_genres"
                      => /\ item.genres # <<>>
                         /\ GenreIds(item) \cap fn_args.filters.with_genres = {}

\* C16 case: an item with one genre of a two-genre exclusion set was dropped
\* by the genre exclusion.
C16_Witness ==
    /\ fn_result.called
    /\ fn_args.filters.without_genres = {1, 3}
    /\ fn_args.items[1].genres = <<1, 2>>
    /\ fn_result.dropped_by[1] = "without_genres"
    /\ fn_result.filtered = SubSeq(fn_args.items, 2, Len(fn_args.items))

\* C16 case: an item without genres passed a genre-inclusion filter.
C16_WitnessNoGenres ==
    /\ fn_result.called
    /\ fn_args.filters.with_genres # {}
    /\ fn_args.items[1].genres = <<>>
    /\ fn_result.dropped_by[1] = ""

\* The cadence of the collection is due today.
DueToday ==
    LET schedule == fn_args.schedule
        today    == fn_args.today
    IN  CASE schedule.schedule_type = "daily" -> TRUE
          [] schedule.schedule_type = "never" -> FALSE
          [] schedule.schedule_type = "weekly" ->
               \/ schedule.day_of_week = "" /\ today.weekday = "Sunday"
               \/ schedule.day_of_week # ""
                    /\ LowerDay(schedule.day_of_week) = LowerDay(today.weekday)
          [] schedule.schedule_type = "monthly" ->
               \/ schedule.day_of_month = 0 /\ today.day = 1
               \/ schedule.day_of_month # 0 /\ schedule.day_of_month = today.day

\* C19: a collection the collections filter selects is processed in a
\* scheduled run without ignore_schedule iff its cadence is due today
\* (daily always, never never, weekly on the configured weekday or Sunday,
\* monthly on the configured day or the 1st); in a manual run or with
\* ignore_schedule it is processed whatever its cadence.
C19_ProcessedIffDue ==
    (fn_result.called /\ (fn_args.collections = {} \/ "N1" \in fn_args.collections)) =>
        IF fn_args.scheduled /\ ~fn_args.ignore_schedule
        THEN fn_result.processed <=> DueToday
        ELSE fn_result.processed

\* C19 case: in a scheduled run on a Sunday a weekly collection without
\* configured day was processed.
C19_Witness ==
    /\ fn_result.called /\ fn_args.scheduled /\ ~fn_args.ignore_schedule
    /\ fn_args.schedule.schedule_type = "weekly" /\ fn_args.schedule.day_of_week = ""
    /\ fn_args.today.weekday = "Sunday"
    /\ fn_result.processed

\* C19 case: a collection of cadence never was processed in a scheduled run
\* with ignore_schedule.
C19_WitnessIgnore ==
    /\ fn_result.called /\ fn_args.scheduled /\ fn_args.ignore_schedule
    /\ fn_args.schedule.schedule_type = "never"
    /\ fn_result.processed

\* The sync in work has computed its changes and sent no membership call yet.
DiffDone ==
    /\ FullSync /\ pc \in {"apply", "metadata"}
    /\ Issued({"add", "remove"}) = {} /\ batch_start = 0

\* The condition under which a sync has to rebuild the collection.
ReorderRequired ==
    /\ \/ config.collection_order # "custom"
       \/ config.sync_mode = "sync" /\ existing # 0
    /\ (to_add_list # <<>> \/ to_remove_list # <<>> \/ existing = 0)

\* The client calls a sync has planned, the ids of a remove call as a set
\* (they are listed from a set, in no particular order).
Planned ==
    [k \in 1..Len(stages) |->
        IF stages[k].op = "add" THEN <<"add", stages[k].ids>>
        ELSE <<"remove", Range(stages[k].ids)>>]

\* The calls of a full reorder: every current member is cleared, then the
\* whole desired list is added; a call with no ids is not made.
ReorderPlan ==
    (IF current_ids = {} THEN <<>> ELSE << <<"remove", current_ids>> >>)
    \o (IF target_ids_list = <<>> THEN <<>> ELSE << <<"add", target_ids_list>> >>)

\* The calls of an incremental update: the missing ids are added, then the
\* surplus ids removed; a call with no ids is not made.
IncrementalPlan ==
    (IF to_add_list = <<>> THEN <<>> ELSE << <<"add", to_add_list>> >>)
    \o (IF to_remove_list = <<>> THEN <<>> ELSE << <<"remove", Range(to_remove_list)>> >>)

\* C23: the membership calls of a sync are those of a full reorder exactly
\* when (the order is not custom, or it is custom in SYNC mode on a collection
\* that existed) and (something is to add or to remove, or the collection was
\* just created); in every other case they are the add of toAdd and the
\* remove of toRemove.
C23_ReorderExactlyWhenRequired ==
    DiffDone => Planned = IF ReorderRequired THEN ReorderPlan ELSE IncrementalPlan

\* C23 case: a reorder was required for a collection with members of which
\* one is kept, and the sync has cleared it and added the whole desired list.
C23_Witness ==
    /\ pc = "returned" /\ FullSync /\ ReorderRequired
    /\ current_ids \cap Range(target_ids_list) # {}
    /\ to_add_list # target_ids_list
    /\ Len(calls) >= 2 /\ calls[1].op = "remove" /\ calls[2].op = "add"

\* C23 case: a reorder was required and nothing is desired; clearing the
\* members is all there is to do.
C23_WitnessNothingDesired ==
    /\ DiffDone /\ ReorderRequired /\ needs_reorder
    /\ target_ids_list = <<>> /\ current_ids # {}

\* C23 case: no reorder was required although something was to add.
C23_WitnessIncremental ==
    /\ DiffDone /\ ~ReorderRequired /\ to_add_list # <<>> /\ current_ids # {}

\* The sync in work takes the reorder branch of sync_collection.
ReorderExecutes == FullSync /\ pc \in AfterDiff \cup {"raised"} /\ needs_reorder
                      /\ target_ids_list # <<>>

\* The ids of the calls of one operation the sync has issued so far, batch
\* after batch.
RECURSIVE IdsIssued(_, _)
IdsIssued(op, n) ==
    IF n = 0 THEN <<>>
    ELSE IdsIssued(op, n - 1) \o (IF calls[n].op = op THEN calls[n].ids ELSE <<>>)

\* C24: in a full reorder the remove calls have cleared every current member,
\* each answered with success, before the first add call is issued; the add
\* calls carry the desired list from its start, in its order, and all of it
\* once the reorder is through; then the members of the collection are the
\* desired list, in that order.
C24_ClearThenAddInOrder ==
    ReorderExecutes =>
        /\ \A k \in Issued({"add"}) :
              /\ \A j \in Issued({"remove"}) : j < k /\ calls[j].ok
              /\ Range(IdsIssued("remove", Len(calls))) = current_ids
        /\ LET added == IdsIssued("add", Len(calls))
           IN  /\ Len(added) <= Len(target_ids_list)
               /\ added = SubSeq(target_ids_list, 1, Len(added))
               /\ (pc \in {"metadata", "poster", "returned"}
                     => /\ added = target_ids_list
                        /\ boxsets[jellyfin_id].Items = target_ids_list)

\* C24 case: a reorder has cleared a member and added it again behind an id
\* that is larger and was not a member.
C24_Witness ==
    /\ ReorderExecutes /\ pc = "returned"
    /\ current_ids # {} /\ current_ids \subseteq Range(target_ids_list)
    /\ Len(target_ids_list) = 2 /\ target_ids_list[1] > target_ids_list[2]
    /\ boxsets[jellyfin_id].Items = target_ids_list

\* The ids of the first n batches a client call has sent, batch after batch.
RECURSIVE IdsSent(_)
IdsSent(n) ==
    IF n = 0 THEN <<>> ELSE IdsSent(n - 1) \o fn_result.sent[n].ids

\* C25: add_to_collection and remove_from_collection send the given ids as
\* consecutive batches of at most COLLECTION_ITEMS_BATCH_SIZE ids in list order
\* (the batches sent, put one after the other, are the list from its start,
\* so every id is in one batch); a batch that is not answered with success is
\* the last one sent; the call returns True iff it sent every id and every
\* batch succeeded, and for an empty list it returns True without any call.
C25_BatchesInOrder ==
    fn_result.called =>
        LET item_ids == fn_args.item_ids
            sent == fn_result.sent
            ids == IdsSent(Len(sent))
        IN  /\ \A k \in 1..Len(sent) :
                  /\ Len(sent[k].ids) >= 1
                  /\ Len(sent[k].ids) <= COLLECTION_ITEMS_BATCH_SIZE
                  /\ (~sent[k].ok => k = Len(sent))
            /\ Len(ids) <= Len(item_ids)
            /\ ids = SubSeq(item_ids, 1, Len(ids))
            /\ (fn_result.returned = "True"
                  <=> /\ ids = item_ids
                      /\ \A k \in 1..Len(sent) : sent[k].ok)
            /\ (fn_result.returned = "False"
                  <=> \E k \in 1..Len(sent) : ~sent[k].ok)
            /\ (item_ids = <<>> => sent = <<>> /\ fn_result.returned = "True")

\* C25 case: a call with MaxIds ids sent its first batch with success and
\* was ended by the failure of its second one.
C25_Witness ==
    /\ fn_result.called /\ fn_result.returned = "False"
    /\ Len(fn_args.item_ids) = MaxIds
    /\ Len(fn_result.sent) = 2 /\ fn_result.sent[1].ok

\* C25 case: a call with no ids has returned True.
C25_WitnessEmpty ==
    /\ fn_result.called /\ fn_args.item_ids = <<>> /\ fn_result.returned = "True"

\* C25 case: a call has sent every id of a list that names an id twice.
C25_WitnessAll ==
    /\ fn_result.called /\ fn_result.returned = "True"
    /\ Len(fn_args.item_ids) = MaxIds /\ fn_args.item_ids[1] = fn_args.item_ids[MaxIds]

\* The pages a paginated fetch can reach: page p is reached when no page
\* before it was empty or the last one.
Reachable(sizes, page) ==
    \A q \in 1..(page - 1) : q < Len(sizes) /\ sizes[q] > 0

\* What the endpoint has available: the results of the reachable pages.
Available(sizes) ==
    LET last == CHOOSE p \in 1..Len(sizes) :
                    Reachable(sizes, p) /\ ~Reachable(sizes, p + 1)
    IN  ResultsBefore(sizes, last + 1)

\* C22: a paginated fetch with limit n requests the pages 1, 2, 3, ... once
\* each in increasing order; it goes on exactly as long as fewer than n items
\* are collected and the page before was neither the last nor empty; the items
\* collected are the provider's first ones in its order, and it returns
\* min(n, available) of them.
C22_PaginationStopsAtLimit ==
    (fn_args.fn = "_fetch_paginated_results" /\ fn_result.called) =>
        LET n == fn_args.limit
            sizes == fn_args.sizes
            requests == fn_result.requests
            all_results == fn_result.all_results
        IN  /\ \A k \in 1..Len(requests) :
                  /\ requests[k] = k
                  /\ Reachable(sizes, k)
                  /\ ResultsBefore(sizes, k) < n
            /\ \A k \in 1..Len(all_results) : all_results[k] = ParseResult([id |-> k])
            /\ Len(all_results) <= n
            /\ (fn_result.state = "returned"
                  => /\ Len(all_results) = Min(n, Available(sizes))
                     /\ \/ Len(all_results) = n
                        \/ ~Reachable(sizes, Len(requests) + 1))

\* C22 case (limit 50 at 20 a page, scaled to the model's page size): with
\* every page full, a limit of 2 pages and a half takes exactly 3 requests
\* and returns that many items.
C22_Witness ==
    /\ fn_args.fn = "_fetch_paginated_results" /\ fn_result.called
    /\ fn_result.state = "returned"
    /\ \A p \in 1..Len(fn_args.sizes) : fn_args.sizes[p] = PageSize
    /\ fn_args.limit = 2 * PageSize + 1
    /\ fn_result.requests = <<1, 2, 3>>
    /\ Len(fn_result.all_results) = 2 * PageSize + 1

\* C22 case (limit 30 at 20 a page): a limit of a page and a half takes
\* exactly 2 requests.
C22_WitnessTwoRequests ==
    /\ fn_args.fn = "_fetch_paginated_results" /\ fn_result.called
    /\ fn_result.state = "returned"
    /\ Len(fn_args.sizes) = MaxPages
    /\ \A p \in 1..Len(fn_args.sizes) : fn_args.sizes[p] = PageSize
    /\ fn_args.limit = PageSize + 1
    /\ fn_result.requests = <<1, 2>>
    /\ Len(fn_result.all_results) = PageSize + 1

\* C22 case: the fetch stopped at an empty page although a later page has
\* results and the limit was not reached.
C22_WitnessEmptyPage ==
    /\ fn_args.fn = "_fetch_paginated_results" /\ fn_result.called
    /\ fn_result.state = "returned"
    /\ Len(fn_args.sizes) = 3 /\ fn_args.sizes[2] = 0 /\ fn_args.sizes[3] > 0
    /\ fn_result.requests = <<1, 2>>
    /\ Len(fn_result.all_results) < fn_args.limit

\* A load has returned.
Loaded == fn_args.fn = "get_library_items" /\ fn_result.called
              /\ fn_result.state = "returned"

\* The items of the library a load has to return: those from the start index
\* on, up to the limit, each once and in the server's order.
ItemsToLoad ==
    ItemsPage(fn_args.total, fn_args.with_tmdb, fn_args.limit, fn_args.limit,
              fn_args.start_index)

\* The requests of a load ask for consecutive pages from the start index on.
ConsecutivePages ==
    LET requests == fn_result.requests
    IN  \A k \in 1..Len(requests) :
            requests[k].StartIndex =
                IF k = 1 THEN fn_args.start_index
                ELSE requests[k - 1].StartIndex
                       + Len(ItemsPage(fn_args.total, fn_args.with_tmdb, fn_args.cap,
                                       requests[k - 1].Limit, requests[k - 1].StartIndex))

\* C26: a library load requests consecutive pages from the start index on and
\* returns every item of the library once, up to the limit, whatever number of
\* items the server returns for a request; the index built from it holds the
\* TMDb id of every such item that has one.
C26_LoadFetchesEveryItem ==
    Loaded =>
        /\ ConsecutivePages
        /\ fn_result.items = ItemsToLoad
        /\ IndexByTmdbId(fn_result.items) = IndexByTmdbId(ItemsToLoad)

\* C26 on a server whose responses hold as many items as asked for (its cap is
\* page_size or more): there the load is complete.
C26_LoadCompleteWithinCap ==
    (Loaded /\ fn_args.cap >= page_size) =>
        /\ ConsecutivePages
        /\ fn_result.items = ItemsToLoad
        /\ IndexByTmdbId(fn_result.items) = IndexByTmdbId(ItemsToLoad)

\* C26 case: a complete load of MaxLibrary items in several requests.
C26_Witness ==
    /\ Loaded /\ fn_args.cap >= page_size
    /\ Len(fn_result.items) = MaxLibrary /\ Len(fn_result.requests) >= 2
    /\ IndexByTmdbId(fn_result.items) \notin {{}, 1..MaxLibrary}

\* C26 case: the load ended after a first page that the server cut short,
\* and items with a TMDb id are missing from the index.
C26_WitnessTruncated ==
    /\ Loaded /\ fn_args.cap < page_size
    /\ Len(fn_result.requests) = 1
    /\ IndexByTmdbId(fn_result.items) # IndexByTmdbId(ItemsToLoad)

\* The two sides carry the same id in one of the three namespaces.
EqualId(item, lib_item) ==
    \/ item.tmdb_id # 0 /\ item.tmdb_id = lib_item.tmdb_id
    \/ item.imdb_id # "" /\ item.imdb_id = lib_item.imdb_id
    \/ item.tvdb_id # 0 /\ item.tvdb_id = lib_item.tvdb_id

\* The titles are equal after normalisation and the years, where both sides
\* carry one, differ by 1 at most.
TitleAndYearAgree(item, lib_item) ==
    /\ _normalize_title(item.title) = _normalize_title(lib_item.title)
    /\ (item.year = 0 \/ lib_item.year = 0 \/ Abs(item.year - lib_item.year) <= 1)

\* _is_match was applied to a candidate of the title fallback.
Matched == fn_args.fn = "_is_match" /\ fn_result.called /\ fn_args.item.tmdb_id = 0

\* C28: in the title fallback a library item matches a candidate iff they
\* carry an equal id in one of the three namespaces, or else their normalised
\* titles are equal and the years agree (one is missing or they differ by 1
\* at most).
C28_MatchIffIdOrTitle ==
    Matched =>
        (fn_result.match <=> \/ EqualId(fn_args.item, fn_args.lib_item)
                             \/ TitleAndYearAgree(fn_args.item, fn_args.lib_item))

\* 'The Matrix' and 'matrix', as the library and a candidate without ids
\* carry them.
MatrixPair ==
    /\ fn_args.lib_item.title = <<"T", "h", "e", " ", "M", "a", "t", "r", "i", "x">>
    /\ fn_args.item.title = <<"m", "a", "t", "r", "i", "x">>
    /\ fn_args.lib_item.year = 1999
    /\ fn_args.item.imdb_id = "" /\ fn_args.item.tvdb_id = 0

\* C28, amended: in the title fallback the first id namespace in which both
\* sides carry an id decides alone (a match iff the two ids are equal); only
\* when there is no such namespace the items match iff their normalised
\* titles are equal and the years agree (one is missing or they differ by 1
\* at most): 'The Matrix' (1999) matches 'matrix' (2000) and not 'matrix'
\* (2005).
C28_FirstCommonIdDecides ==
    Matched =>
        LET item == fn_args.item
            lib_item == fn_args.lib_item
        IN  /\ (item.imdb_id # "" /\ lib_item.imdb_id # "")
                  => (fn_result.match <=> item.imdb_id = lib_item.imdb_id)
            /\ ((item.imdb_id = "" \/ lib_item.imdb_id = "")
                    /\ item.tvdb_id # 0 /\ lib_item.tvdb_id # 0)
                  => (fn_result.match <=> item.tvdb_id = lib_item.tvdb_id)
            /\ ((item.imdb_id = "" \/ lib_item.imdb_id = "")
                    /\ (item.tvdb_id = 0 \/ lib_item.tvdb_id = 0))
                  => (fn_result.match <=> TitleAndYearAgree(item, lib_item))
            /\ (MatrixPair /\ item.year = 2000) => fn_result.match
            /\ (MatrixPair /\ item.year = 2005) => ~fn_result.match

\* C28 case: 'The Matrix' (1999) matches 'matrix' (2000), neither with ids.
C28_Witness ==
    /\ Matched /\ fn_result.match /\ MatrixPair /\ fn_args.item.year = 2000

\* C28 case: 'The Matrix' (1999) does not match 'matrix' (2005).
C28_WitnessYearsApart ==
    /\ Matched /\ ~fn_result.match /\ MatrixPair /\ fn_args.item.year = 2005

\* C28 case: both sides carry different ids of one namespace and the same id
\* of the next one, and do not match.
C28_WitnessLaterIdIgnored ==
    /\ Matched /\ ~fn_result.match
    /\ fn_args.item.imdb_id = "tt1" /\ fn_args.lib_item.imdb_id = "tt2"
    /\ fn_args.item.tvdb_id = 5 /\ fn_args.lib_item.tvdb_id = 5

\* The dedupe key as C27 states it: the id of the first namespace the item
\* carries one in, else the normalised title with the year or 0.
NormalizedKey(item) ==
    IF DedupeKey(item).ns = "title"
    THEN [ns |-> "title", id |-> _normalize_title(item.title), year |-> item.year]
    ELSE DedupeKey(item)

Requested == IF fn_args.discover.limit = Absent THEN 20 ELSE fn_args.discover.limit

ExclusionFilters ==
    IF fn_args.filters = <<>> THEN 0
    ELSE Len(fn_args.filters.original_language_not)
           + Len(fn_args.filters.origin_country_not)

C29_WitnessCapped ==
    /\ fn_result.called
    /\ ExclusionFilters > 6
    /\ Requested = 3
    /\ fn_result.limit = 12

\* An odd product: 3 items with one exclusion fetch int(4.5) = 4.
C29_WitnessRounded ==
    /\ fn_result.called
    /\ ExclusionFilters = 1
    /\ Requested = 3
    /\ fn_result.limit = 4

\* ------------------------------------------------------------------- C30
\* C30: find_in_library for a candidate with a TMDb id answers from the index
\* of the library it is asked about alone: it returns an item only if the
\* item is in that library's index under the id, and None only if the index
\* has no entry for the id, whatever was looked up in other libraries
\* before.
C30_ResultFromLibraryIndex ==
    [][ (MatcherStep("find") /\ ~last_call'.raised) =>
          LET id == last_call'.tmdb_id
              L  == last_call'.library
          IN  /\ last_call'.result # None =>
                    /\ last_call'.in_index
                    /\ last_call'.result = LibraryItem(L, id)
              /\ last_call'.result = None => ~last_call'.in_index
      ]_vars

\* The lookup that finds the cache empty for its id does answer from the
\* library's index.
C30_FirstLookupFromLibraryIndex ==
    [][ (MatcherStep("find") /\ ~last_call'.raised /\ ~last_call'.cached) =>
          last_call'.result =
             IF last_call'.in_index
             THEN LibraryItem(last_call'.library, last_call'.tmdb_id) ELSE None
      ]_vars

\* An id that the library asked about holds was answered None, from the
\* cache entry a lookup in another library left.
C30_WitnessMissLeaks ==
    /\ last_call.op = "find" /\ ~last_call.raised /\ last_call.cached
    /\ last_call.in_index
    /\ last_call.result = None

\* A lookup was answered with the item of another library.
C30_WitnessHitLeaks ==
    /\ last_call.op = "find" /\ ~last_call.raised /\ last_call.cached
    /\ last_call.result # None
    /\ last_call.result.library # last_call.library

\* ------------------------------------------------------------------- C21
\* A task's sync of the collection is in progress from its get_collections
\* to the end of its run; it is in its membership steps once it has read the
\* members and has add or remove batches left to send.
SyncInProgress(task) == task.pc \notin {"idle", "done"}

InMembershipSteps(task) == task.pc = "apply"

MembershipStep(job) ==
    /\ TasksOf(fn_result)[job].pc \in {"get_items", "apply"}
    /\ TasksOf(fn_result')[job] # TasksOf(fn_result)[job]

\* C21: at most one sync of the collection is in progress at any time in the
\* process: no task takes a get-members, add or remove step for the
\* collection while another task of the process is between its own.
C21_SyncsSerialized ==
    [][ \A job \in Jobs :
          MembershipStep(job) =>
             \A other \in Jobs \ {job} : ~InMembershipSteps(TasksOf(fn_result)[other])
      ]_vars

\* No two runs are inside sync_collection for the collection at once.
C21_OneSyncInProgress ==
    Cardinality({job \in Jobs : SyncInProgress(TasksOf(fn_result)[job])}) <= 1

\* The initial sync and the cron sync ran side by side without a failure,
\* each found no BoxSet of the name and created one.
C21_WitnessDuplicateBoxSets ==
    /\ fn_args.fn = "schedule" /\ fn_result.called
    /\ \A job \in {"run_on_start", "collection_sync"} :
          fn_result.tasks[job].pc = "done" /\ ~fn_result.tasks[job].raised
    /\ Len(boxsets) = 2

\* Both syncs ended without a failure and the members of the BoxSet are the
\* target list of neither.
C21_WitnessMembersOfNeither ==
    /\ fn_args.fn = "schedule" /\ fn_result.called
    /\ fn_args.sync_mode = "sync"
    /\ Len(boxsets) = 1
    /\ \A job \in {"run_on_start", "collection_sync"} :
          /\ fn_result.tasks[job].pc = "done" /\ ~fn_result.tasks[job].raised
          /\ Range(boxsets[1].Items) # Range(fn_result.tasks[job].target)

====
